---- MODULE Spec2Model ----
(***************************************************************************)
(* Report engine of the NS-Stores back office: the six report handlers of  *)
(* controllers/reportController.js, the collections they read, the writes  *)
(* of the CRUD layer that run beside them, and the JavaScript Date          *)
(* arithmetic the handlers use for their time windows.                      *)
(*                                                                         *)
(* Time.  A Date is a number of ticks since the epoch (UTC), as in          *)
(* JavaScript, at a resolution of DayTicks ticks per day.  The server's     *)
(* time zone is a fixed offset tz (in ticks, no daylight saving); the       *)
(* local calendar fields of a Date are those of the instant shifted by tz,  *)
(* toISOString uses the UTC fields.                                         *)
(***************************************************************************)
EXTENDS Integers, Sequences, FiniteSets, TLC

VARIABLES now, tz, products, suppliers, users, quotations, reservations,
          auth, inbox, req, resp, prev, log, writes, ticks, updates

vars == <<now, tz, products, suppliers, users, quotations, reservations,
          auth, inbox, req, resp, prev, log, writes, ticks, updates>>

colls == <<products, suppliers, users, quotations, reservations>>

----------------------------------------------------------------------------
(* Bounds of the model                                                      *)

DayTicks == 2
FirstYear == 2024
MaxDocs == 2
MaxTicks == 2
MaxWrites == 2
MaxPeriod == 2
MaxAmount == 2
MaxStock == 2
MaxPending == 2
MaxUpdates == 2

----------------------------------------------------------------------------
(* The proleptic Gregorian calendar behind Date                             *)

EpochYear == 1970

IsLeap(y) == (y % 4 = 0 /\ y % 100 # 0) \/ y % 400 = 0

\* month is 0-based, as Date.getMonth()
DaysInMonth(y, m) ==
  IF m = 1 THEN (IF IsLeap(y) THEN 29 ELSE 28)
  ELSE IF m \in {3, 5, 8, 10} THEN 30 ELSE 31

LeapsThrough(y) == (y \div 4) - (y \div 100) + (y \div 400)

\* day number (days since 1 Jan EpochYear) of 1 Jan of year y
DayOfYearStart(y) ==
  365 * (y - EpochYear) + LeapsThrough(y - 1) - LeapsThrough(EpochYear - 1)

RECURSIVE DaysBeforeMonth(_, _)
DaysBeforeMonth(y, m) ==
  IF m = 0 THEN 0 ELSE DaysBeforeMonth(y, m - 1) + DaysInMonth(y, m - 1)

\* ECMAScript MakeDay: month and day of month may lie outside their ranges
MakeDay(y, m, d) ==
  LET ym == y + (m \div 12)
      mn == m % 12
  IN  DayOfYearStart(ym) + DaysBeforeMonth(ym, mn) + d - 1

YearFromDay(n) ==
  CHOOSE y \in (EpochYear + (n \div 366))..(EpochYear + (n \div 365)) :
    DayOfYearStart(y) <= n /\ n < DayOfYearStart(y + 1)

MonthFromDay(n) ==
  LET y == YearFromDay(n)
      r == n - DayOfYearStart(y)
  IN  CHOOSE m \in 0..11 :
        DaysBeforeMonth(y, m) <= r /\ r < DaysBeforeMonth(y, m) + DaysInMonth(y, m)

DateFromDay(n) ==
  LET y == YearFromDay(n)
  IN  n - DayOfYearStart(y) - DaysBeforeMonth(y, MonthFromDay(n)) + 1

----------------------------------------------------------------------------
(* Date: ticks since the epoch, local fields under the offset z             *)

LocalDay(t, z) == (t + z) \div DayTicks
LocalTime(t, z) == (t + z) % DayTicks

getFullYear(t, z) == YearFromDay(LocalDay(t, z))
getMonth(t, z) == MonthFromDay(LocalDay(t, z))
getDate(t, z) == DateFromDay(LocalDay(t, z))

\* new Date(year, month, day): local midnight of that (normalised) day
NewDate(y, m, d, z) == MakeDay(y, m, d) * DayTicks - z

\* date.setDate(d): same local year, month and time of day
setDate(t, d, z) ==
  MakeDay(getFullYear(t, z), getMonth(t, z), d) * DayTicks + LocalTime(t, z) - z

\* date.setMonth(m): same local year, day of month and time of day
setMonth(t, m, z) ==
  MakeDay(getFullYear(t, z), m, getDate(t, z)) * DayTicks + LocalTime(t, z) - z

\* date.toISOString().substring(0, 7): "YYYY-MM" of the UTC fields
IsoMonth(t) == <<YearFromDay(t \div DayTicks), MonthFromDay(t \div DayTicks) + 1>>

\* date.toISOString().split('T')[0]: "YYYY-MM-DD" of the UTC fields
IsoDate(t) ==
  <<YearFromDay(t \div DayTicks), MonthFromDay(t \div DayTicks) + 1,
    DateFromDay(t \div DayTicks)>>

----------------------------------------------------------------------------
(* Sequences, sums and the exact numbers of the aggregation operators       *)

Range(s) == {s[i] : i \in DOMAIN s}

RECURSIVE SumSeq(_)
SumSeq(s) == IF s = <<>> THEN 0 ELSE Head(s) + SumSeq(Tail(s))

Max(S) == CHOOSE x \in S : \A y \in S : y <= x
Min(S) == CHOOSE x \in S : \A y \in S : x <= y

RECURSIVE Gcd(_, _)
Gcd(a, b) == IF b = 0 THEN a ELSE Gcd(b, a % b)

\* an exact quotient n/d (d > 0) in lowest terms
Quot(n, d) == LET g == Gcd(n, d) IN <<n \div g, d \div g>>

\* Model.countDocuments(filter)
countDocuments(coll, P(_)) == Len(SelectSeq(coll, P))

\* the distinct values of a sequence, by first occurrence
RECURSIVE Distinct(_, _)
Distinct(s, seen) ==
  IF s = <<>> THEN <<>>
  ELSE IF Head(s) \in seen THEN Distinct(Tail(s), seen)
       ELSE <<Head(s)>> \o Distinct(Tail(s), seen \cup {Head(s)})

\* the values of key over a sequence of documents
MapSeq(s, key(_)) == [i \in DOMAIN s |-> key(s[i])]

\* sorting works on pairs <<sort key, document>>; ties keep their input order
RECURSIVE InsertDesc(_, _)
InsertDesc(x, s) ==
  IF s = <<>> THEN <<x>>
  ELSE IF Head(s)[1] >= x[1] THEN <<Head(s)>> \o InsertDesc(x, Tail(s))
       ELSE <<x>> \o s

RECURSIVE SortPairsDesc(_)
SortPairsDesc(s) ==
  IF s = <<>> THEN <<>>
  ELSE InsertDesc(s[Len(s)], SortPairsDesc(SubSeq(s, 1, Len(s) - 1)))

RECURSIVE InsertAsc(_, _)
InsertAsc(x, s) ==
  IF s = <<>> THEN <<x>>
  ELSE IF Head(s)[1] <= x[1] THEN <<Head(s)>> \o InsertAsc(x, Tail(s))
       ELSE <<x>> \o s

RECURSIVE SortPairsAsc(_)
SortPairsAsc(s) ==
  IF s = <<>> THEN <<>>
  ELSE InsertAsc(s[Len(s)], SortPairsAsc(SubSeq(s, 1, Len(s) - 1)))

\* { $sort: { <field>: -1 } }
SortDesc(s, f(_)) ==
  LET r == SortPairsDesc([i \in DOMAIN s |-> <<f(s[i]), s[i]>>])
  IN  [i \in DOMAIN r |-> r[i][2]]

\* { $sort: { <field>: 1 } }
SortAsc(s, f(_)) ==
  LET r == SortPairsAsc([i \in DOMAIN s |-> <<f(s[i]), s[i]>>])
  IN  [i \in DOMAIN r |-> r[i][2]]

\* { $limit: n }
Limit(s, n) == SubSeq(s, 1, IF Len(s) < n THEN Len(s) ELSE n)

\* the empty object {} of `x[0] || {}`
EmptyObject == <<>>

\* x[0] || null: a null value when nothing matched
FirstOrNull(s) == IF s = <<>> THEN [null |-> TRUE] ELSE s[1]

\* x[0] || {}
FirstOrEmpty(s) == IF s = <<>> THEN EmptyObject ELSE s[1]

----------------------------------------------------------------------------
(* The five collections.  A collection is the sequence of its documents in  *)
(* natural (insertion) order; a document is a record of the fields the      *)
(* reports read.  A missing category is "none", a missing supplier          *)
(* reference or a user who is not logged in has the value Missing.          *)

Missing == 0 - 1

Ids == 1..MaxDocs
Categories == {"paint", "tools", "none"}
Locations == {"colombo", "kandy"}
Roles == {"admin", "customer"}
QuotationStatuses == {"pending", "processing", "completed", "rejected"}
ReservationStatuses == {"pending", "confirmed", "completed", "cancelled"}
Emails == {"a@ns", "b@ns"}

IdsOf(coll) == {coll[i].id : i \in DOMAIN coll}
FreshId(coll) == Min(Ids \ IdsOf(coll))
\* writes counts the writes so far: those of the CRUD layer, and all of them
Budget == writes.crud < MaxWrites
Wrote == [crud |-> writes.crud + 1, all |-> writes.all + 1]

HasRoom(coll) == Len(coll) < MaxDocs /\ Budget

\* document.save() / findByIdAndUpdate on the document with this id
Update(coll, id, f(_)) ==
  [i \in DOMAIN coll |-> IF coll[i].id = id THEN f(coll[i]) ELSE coll[i]]

\* findByIdAndDelete
Remove(coll, id) == LET keep(d) == d.id # id IN SelectSeq(coll, keep)

findById(coll, id) == LET hit(d) == d.id = id IN SelectSeq(coll, hit)

----------------------------------------------------------------------------
(* The CRUD layer: the writes that run beside the reports                   *)

\* POST /api/products: new Product(req.body).save(), timestamps set by the store
createProduct(active, stock, minStock, category, price, supplier) ==
  /\ HasRoom(products)
  /\ products' = Append(products,
        [id |-> FreshId(products), isActive |-> active, stock |-> stock,
         minStock |-> minStock, category |-> category, price |-> price,
         supplier |-> supplier, createdAt |-> now, updatedAt |-> now])
  /\ writes' = Wrote
  /\ UNCHANGED <<now, tz, suppliers, users, quotations, reservations,
                 auth, inbox, req, resp, prev, log, ticks, updates>>

\* PATCH /api/products/:id/stock, the handler await by await.  updates[s] is
\* one request: where its handler stands, the product document it holds
\* (stock is product.stock of that copy) and its answer.  req.body: an
\* operation is a string, "" for none; a quantity is undefined, a number or
\* a string that is not a number.
Undefined == [type |-> "undefined", value |-> 0]
NotANumber == [type |-> "string", value |-> 0]
Num(n) == [type |-> "number", value |-> n]

Operations == {"", "add", "subtract", "set"}
Quantities == {Undefined, NotANumber} \cup {Num(n) : n \in (0 - 1)..2}

\* !quantity
Falsy(q) == q.type = "undefined" \/ (q.type = "number" /\ q.value = 0)
\* quantity <= 0: false when quantity converts to NaN
NotPositive(q) == q.type = "number" /\ q.value <= 0
\* Number(quantity) is NaN
IsNaN(q) == q.type # "number"

NoUpdate ==
  [pc |-> "none", id |-> 0, operation |-> "", quantity |-> Undefined,
   stock |-> 0, nan |-> FALSE, status |-> 0, message |-> ""]

NoUpdates == [s \in 1..MaxUpdates |-> NoUpdate]

\* res.status(status).json(...): the handler ends; the request is kept
\* with the answer when it succeeded
Answered(u, status, message) ==
  IF status = 200
  THEN [u EXCEPT !.pc = "done", !.stock = 0, !.status = status,
                 !.message = message]
  ELSE [NoUpdate EXCEPT !.pc = "done", !.status = status, !.message = message]

\* the catch block of updateStock
UpdateFails(s) ==
  /\ updates' = [updates EXCEPT ![s] = Answered(@, 500,
                    "Server error while updating stock")]
  /\ UNCHANGED <<products, writes>>

\* the request arrives: the body is validated and Product.findById is sent
updateStockRequest(s, id, operation, quantity) ==
  /\ updates[s].pc = "none"
  /\ \A t \in 1..(s - 1) : updates[t].pc # "none"
  /\ updates' =
       [updates EXCEPT ![s] =
          IF operation = "" \/ Falsy(quantity) \/ NotPositive(quantity)
          THEN Answered(@, 400, "Valid operation and quantity are required")
          ELSE [@ EXCEPT !.pc = "find", !.id = id, !.operation = operation,
                         !.quantity = quantity]]
  /\ UNCHANGED <<now, tz, products, suppliers, users, quotations,
                 reservations, auth, inbox, req, resp, prev, log, writes,
                 ticks>>

\* a handler that subtracts without comparing the quantity with the stock
updateStockFoundUnchecked(s) ==
  /\ updates[s].pc = "find"
  /\ LET u == updates[s]
         found == findById(products, u.id)
     IN  /\ found # <<>>
         /\ u.operation \in {"add", "subtract"}
         /\ ~IsNaN(u.quantity)
         /\ u.operation = "add" => found[1].stock + u.quantity.value <= MaxStock
         /\ updates' =
              [updates EXCEPT ![s] =
                 [u EXCEPT !.pc = "save",
                           !.stock = IF u.operation = "add"
                                     THEN found[1].stock + u.quantity.value
                                     ELSE found[1].stock - u.quantity.value]]
  /\ UNCHANGED <<now, tz, products, suppliers, users, quotations,
                 reservations, auth, inbox, req, resp, prev, log, writes,
                 ticks>>

\* Product.findById has answered: the stock of the copy is changed and
\* product.save() is sent, or the request is answered 404 or 400
updateStockFound(s) ==
  /\ updates[s].pc = "find"
  /\ \/ LET u == updates[s]
            found == findById(products, u.id)
            n == u.quantity.value
        IN  /\ (found # <<>> /\ u.operation = "add" /\ ~IsNaN(u.quantity))
                  => found[1].stock + n <= MaxStock
            /\ updates' =
                 [updates EXCEPT ![s] =
                    IF found = <<>>
                    THEN Answered(u, 404, "Product not found")
                    ELSE IF u.operation = "add"
                    THEN [u EXCEPT !.pc = "save", !.nan = IsNaN(u.quantity),
                                   !.stock = IF IsNaN(u.quantity) THEN 0
                                             ELSE found[1].stock + n]
                    ELSE IF u.operation = "subtract"
                    THEN IF ~IsNaN(u.quantity) /\ found[1].stock < n
                         THEN Answered(u, 400, "Insufficient stock")
                         ELSE [u EXCEPT !.pc = "save",
                                        !.nan = IsNaN(u.quantity),
                                        !.stock = IF IsNaN(u.quantity) THEN 0
                                                  ELSE found[1].stock - n]
                    ELSE Answered(u, 400,
                           "Invalid operation. Use \"add\" or \"subtract\"")]
            /\ UNCHANGED <<products, writes>>
     \/ UpdateFails(s)
  /\ UNCHANGED <<now, tz, suppliers, users, quotations, reservations,
                 auth, inbox, req, resp, prev, log, ticks>>

\* product.save() has answered: the stock of the copy is stored over the
\* stock of the document, and the second Product.findById is sent; a copy
\* whose stock is NaN does not validate, a deleted document is not found
updateStockSaved(s) ==
  /\ updates[s].pc = "save"
  /\ \/ LET u == updates[s]
            save(d) == [d EXCEPT !.stock = u.stock, !.updatedAt = now]
        IN  /\ ~u.nan
            /\ findById(products, u.id) # <<>>
            /\ products' = Update(products, u.id, save)
            /\ writes' = Wrote
            /\ updates' = [updates EXCEPT ![s].pc = "populate", ![s].stock = 0]
     \/ UpdateFails(s)
  /\ UNCHANGED <<now, tz, suppliers, users, quotations, reservations,
                 auth, inbox, req, resp, prev, log, ticks>>

\* the second Product.findById has answered: res.json(populated)
updateStockAnswer(s) ==
  /\ updates[s].pc = "populate"
  /\ \/ /\ findById(products, updates[s].id) # <<>>
        /\ updates' = [updates EXCEPT ![s] = Answered(@, 200, "")]
        /\ UNCHANGED <<products, writes>>
     \/ UpdateFails(s)
  /\ UNCHANGED <<now, tz, suppliers, users, quotations, reservations,
                 auth, inbox, req, resp, prev, log, ticks>>

\* PATCH /api/products/:id/stock, the handler from its first line to its
\* answer with no other request between its awaits
updateStock(id, operation, quantity) ==
  /\ Budget
  /\ quantity > 0
  /\ operation \in {"add", "subtract"}
  /\ \E i \in DOMAIN products :
       /\ products[i].id = id
       /\ operation = "subtract" => products[i].stock >= quantity
       /\ operation = "add" => products[i].stock + quantity <= MaxStock
       /\ LET save(d) ==
                [d EXCEPT !.stock = IF operation = "add" THEN @ + quantity
                                    ELSE @ - quantity,
                          !.updatedAt = now]
          IN  products' = Update(products, id, save)
  /\ writes' = Wrote
  /\ UNCHANGED <<now, tz, suppliers, users, quotations, reservations,
                 auth, inbox, req, resp, prev, log, ticks, updates>>

\* PUT /api/products/:id with body { isActive }
updateProduct(id, active) ==
  /\ Budget
  /\ id \in IdsOf(products)
  /\ LET save(d) == [d EXCEPT !.isActive = active, !.updatedAt = now]
     IN  products' = Update(products, id, save)
  /\ writes' = Wrote
  /\ UNCHANGED <<now, tz, suppliers, users, quotations, reservations,
                 auth, inbox, req, resp, prev, log, ticks, updates>>

\* DELETE /api/products/:id
deleteProduct(id) ==
  /\ Budget
  /\ id \in IdsOf(products)
  /\ products' = Remove(products, id)
  /\ writes' = Wrote
  /\ UNCHANGED <<now, tz, suppliers, users, quotations, reservations,
                 auth, inbox, req, resp, prev, log, ticks, updates>>

\* POST /api/users/register
register(role) ==
  /\ HasRoom(users)
  /\ users' = Append(users,
        [id |-> FreshId(users), role |-> role, isActive |-> TRUE,
         loginCount |-> 0, lastLogin |-> Missing, createdAt |-> now])
  /\ writes' = Wrote
  /\ UNCHANGED <<now, tz, products, suppliers, quotations, reservations,
                 auth, inbox, req, resp, prev, log, ticks, updates>>

\* DELETE /api/users/:id
deleteUser(id) ==
  /\ Budget
  /\ id \in IdsOf(users)
  /\ users' = Remove(users, id)
  /\ writes' = Wrote
  /\ UNCHANGED <<now, tz, products, suppliers, quotations, reservations,
                 auth, inbox, req, resp, prev, log, ticks, updates>>

\* the supplier, quotation and reservation controllers
createSupplier(active, location, agreementEnd) ==
  /\ HasRoom(suppliers)
  /\ suppliers' = Append(suppliers,
        [id |-> FreshId(suppliers), isActive |-> active, location |-> location,
         agreementEndDate |-> agreementEnd, createdAt |-> now])
  /\ writes' = Wrote
  /\ UNCHANGED <<now, tz, products, users, quotations, reservations,
                 auth, inbox, req, resp, prev, log, ticks, updates>>

createQuotation(status, category, amount) ==
  /\ HasRoom(quotations)
  /\ quotations' = Append(quotations,
        [id |-> FreshId(quotations), status |-> status,
         productCategory |-> category, totalAmount |-> amount,
         createdAt |-> now, updatedAt |-> now])
  /\ writes' = Wrote
  /\ UNCHANGED <<now, tz, products, suppliers, users, reservations,
                 auth, inbox, req, resp, prev, log, ticks, updates>>

createReservation(status, email) ==
  /\ HasRoom(reservations)
  /\ reservations' = Append(reservations,
        [id |-> FreshId(reservations), status |-> status, email |-> email,
         createdAt |-> now, updatedAt |-> now])
  /\ writes' = Wrote
  /\ UNCHANGED <<now, tz, products, suppliers, users, quotations,
                 auth, inbox, req, resp, prev, log, ticks, updates>>

\* the wall clock advances by d ticks
Advance(d) ==
  /\ ticks < MaxTicks
  /\ now' = now + d
  /\ ticks' = ticks + 1
  /\ UNCHANGED <<tz, products, suppliers, users, quotations, reservations,
                 auth, inbox, req, resp, prev, log, writes, updates>>

----------------------------------------------------------------------------
(* Authentication in front of every report route                           *)

Routes == {"dashboard", "products", "suppliers", "users", "quotations",
           "reservations"}

DefaultPeriod == 30

\* parseInt(period), period = '30' when the query has none (Missing)
Days(period) == IF period = Missing THEN DefaultPeriod ELSE period

\* what a request carries for a token: Missing when it has no Authorization
\* header or one that does not start with Bearer, Forged when jwt.verify
\* throws on the token, else the id the verified token decodes to
Forged == 0 - 2
Tokens == Ids \cup {Missing, Forged}

----------------------------------------------------------------------------
(* A report request in flight.  Every `await` of a handler is one step: the *)
(* query runs against the collections as they are at that moment, and the   *)
(* code up to the next await runs with it.  vals holds the results of the   *)
(* awaits so far, date the value of the last `new Date()`; w0 and t0 are    *)
(* the number of writes and the time at which the handler started, at the   *)
(* number of writes when its last query ran.                                *)

NoReq ==
  [route |-> "none", period |-> 0, user |-> 0, startDate |-> 0, date |-> 0,
   vals |-> <<>>, trend |-> <<>>, trend2 |-> <<>>, w0 |-> 0, t0 |-> 0,
   at |-> 0]

NoResp ==
  [route |-> "none", period |-> 0, w0 |-> 0, w1 |-> 0, t0 |-> 0, status |-> 0,
   body |-> EmptyObject]

\* res.json({ success: true, data })
Success(r, data) ==
  [route |-> r.route, period |-> r.period, w0 |-> r.w0, w1 |-> writes.all,
   t0 |-> r.t0, status |-> 200, body |-> [success |-> TRUE, data |-> data]]

\* the messages of the errors a query can reject with
Errors == {"connection closed", "operation timed out"}

\* a failure payload that also carries the results obtained so far
FailureWithData(r, error) ==
  [route |-> r.route, period |-> r.period, w0 |-> r.w0, w1 |-> writes.all,
   t0 |-> r.t0, status |-> 500,
   body |-> [success |-> FALSE, message |-> error, data |-> r.vals]]

\* res.status(500).json({ success: false, message: error.message })
Failure(r, error) ==
  [route |-> r.route, period |-> r.period, w0 |-> r.w0, w1 |-> writes.all,
   t0 |-> r.t0, status |-> 500,
   body |-> [success |-> FALSE, message |-> error]]

\* the catch block of a handler: the awaited query has rejected with error;
\* console.error writes it to the log and the failure payload is sent
Catch(error) ==
  /\ log' = Append(log, [route |-> req.route, message |-> error])
  /\ req' = NoReq
  /\ resp' = Failure(req, error)
  /\ prev' = resp

\* a start date that ignores the period
StartDateOfNow(t, days) == t

\* const days = parseInt(period); startDate.setDate(startDate.getDate() - days)
StartDate(t, days) == setDate(t, getDate(t, tz) - days, tz)

\* the number of queries getDashboardOverview hands to Promise.all
DashboardCounts == 10

\* res.status(status).json({ success: false, message }) of the middleware
Rejection(route, period, status, message) ==
  [route |-> route, period |-> period, w0 |-> writes.all, w1 |-> writes.all,
   t0 |-> now, status |-> status,
   body |-> [success |-> FALSE, message |-> message]]

Reject(route, period, status, message) ==
  /\ resp' = Rejection(route, period, status, message)
  /\ prev' = resp
  /\ UNCHANGED auth

\* no request is between the two awaits of protect
NoAuth == [route |-> "none", period |-> 0, user |-> 0, date |-> 0]

\* a middleware that lets only administrators through
protectAdminOnly(route, period, token) ==
  /\ auth = NoAuth
  /\ Len(inbox) < MaxPending
  /\ IF /\ token \in Ids
        /\ findById(users, token) # <<>>
        /\ findById(users, token)[1].isActive
        /\ findById(users, token)[1].role = "admin"
     THEN /\ auth' = [route |-> route, period |-> period, user |-> token,
                      date |-> now]
          /\ UNCHANGED <<resp, prev>>
     ELSE Reject(route, period, 401, "Not authorized to access this route")
  /\ UNCHANGED <<now, tz, products, suppliers, users, quotations,
                 reservations, inbox, req, log, writes, ticks, updates>>

\* protect up to its second await: the token is taken from the header and
\* verified, User.findById has answered, and for an active user
\* findByIdAndUpdate is sent with lastLogin: new Date()
protect(route, period, token) ==
  /\ auth = NoAuth
  /\ Len(inbox) < MaxPending
  /\ \/ /\ token = Missing
        /\ Reject(route, period, 401, "Not authorized to access this route")
     \/ /\ token = Forged
        /\ Reject(route, period, 401, "Invalid or expired token")
     \/ /\ token \in Ids       \* User.findById rejects: the inner catch
        /\ Reject(route, period, 401, "Invalid or expired token")
     \/ /\ token \in Ids
        /\ findById(users, token) = <<>>
        /\ Reject(route, period, 401, "No user found for this token")
     \/ /\ token \in Ids
        /\ findById(users, token) # <<>>
        /\ ~findById(users, token)[1].isActive
        /\ Reject(route, period, 403, "User account is deactivated")
     \/ /\ token \in Ids
        /\ findById(users, token) # <<>>
        /\ findById(users, token)[1].isActive
        /\ auth' = [route |-> route, period |-> period, user |-> token,
                    date |-> now]
        /\ UNCHANGED <<resp, prev>>
  /\ UNCHANGED <<now, tz, products, suppliers, users, quotations,
                 reservations, inbox, req, log, writes, ticks, updates>>

\* a middleware that sends the update and calls next() without awaiting it
protectUpdateUnawaited ==
  /\ auth # NoAuth
  /\ auth' = NoAuth
  /\ inbox' = Append(inbox, [route |-> auth.route, period |-> auth.period,
                             user |-> auth.user])
  /\ UNCHANGED <<now, tz, products, suppliers, users, quotations,
                 reservations, req, resp, prev, log, writes, ticks, updates>>

\* protect from its second await on: findByIdAndUpdate has answered, having
\* updated the user if the document is still there, and next() hands the
\* request to the router; if it rejects, the inner catch answers 401
protectUpdate ==
  /\ auth # NoAuth
  /\ auth' = NoAuth
  /\ \/ /\ LET bump(d) == [d EXCEPT !.loginCount = @ + 1,
                                     !.lastLogin = auth.date]
           IN  users' = Update(users, auth.user, bump)
        /\ writes' = IF findById(users, auth.user) = <<>> THEN writes
                     ELSE [writes EXCEPT !.all = @ + 1]
        /\ inbox' = Append(inbox, [route |-> auth.route, period |-> auth.period,
                                   user |-> auth.user])
        /\ UNCHANGED <<resp, prev>>
     \/ /\ resp' = Rejection(auth.route, auth.period, 401,
                              "Invalid or expired token")
        /\ prev' = resp
        /\ UNCHANGED <<users, inbox, writes>>
  /\ UNCHANGED <<now, tz, products, suppliers, quotations, reservations,
                 req, log, ticks, updates>>

\* a handler that starts by counting the request on the caller's document
BeginCounting ==
  /\ req.route = "none"
  /\ inbox # <<>>
  /\ req' = [NoReq EXCEPT !.route = Head(inbox).route,
                          !.period = Head(inbox).period,
                          !.user = Head(inbox).user,
                          !.vals = IF Head(inbox).route = "dashboard"
                                   THEN [j \in 1..DashboardCounts |-> Missing]
                                   ELSE <<>>,
                          !.startDate = now, !.date = now, !.w0 = writes.all,
                          !.at = writes.all, !.t0 = now]
  /\ LET bump(d) == [d EXCEPT !.loginCount = @ + 1]
     IN  users' = Update(users, Head(inbox).user, bump)
  /\ inbox' = Tail(inbox)
  /\ UNCHANGED <<now, tz, products, suppliers, quotations,
                 reservations, auth, resp, prev, log, writes, ticks, updates>>

\* the code of a handler before its first await
Begin ==
  /\ req.route = "none"
  /\ inbox # <<>>
  /\ LET m == Head(inbox)
         days == IF m.route = "dashboard" THEN DefaultPeriod ELSE Days(m.period)
     IN  req' = [NoReq EXCEPT !.route = m.route, !.period = m.period,
                             !.user = m.user,
                             !.vals = IF m.route = "dashboard"
                                      THEN [j \in 1..DashboardCounts |-> Missing]
                                      ELSE <<>>,
                             !.startDate = StartDate(now, days),
                             !.date = now, !.w0 = writes.all,
                             !.at = writes.all, !.t0 = now]
  /\ inbox' = Tail(inbox)
  /\ UNCHANGED <<now, tz, products, suppliers, users, quotations,
                 reservations, auth, resp, prev, log, writes, ticks, updates>>

\* a filter that keeps only the documents of the period
EverySince(d) == d.createdAt >= req.startDate

\* the filter of countDocuments() without a filter
Every(d) == TRUE

\* { $group: { _id: '$key' } }: the groups, in order of first occurrence
GroupIds(docs, key(_)) == Distinct(MapSeq(docs, key), {})

----------------------------------------------------------------------------
(* getQuotationReports                                                      *)

QuotationAwaits == 21

\* the month window of iteration i of the monthly loop
MonthWindow(date, i) ==
  LET d == setMonth(date, getMonth(date, tz) - i, tz)
  IN  [startOfMonth |-> NewDate(getFullYear(d, tz), getMonth(d, tz), 1, tz),
       endOfMonth |-> NewDate(getFullYear(d, tz), getMonth(d, tz) + 1, 0, tz)]

InWindow(d, w) == w.startOfMonth <= d.createdAt /\ d.createdAt <= w.endOfMonth

Amount(d) == d.totalAmount
ResponseTime(d) == d.updatedAt - d.createdAt

\* the totalAmount of all documents, whatever their status
EveryAmount(docs) == MapSeq(docs, Amount)

\* the totalAmount of the documents that { $match: { status: 'completed' } } keeps
CompletedAmounts(docs) ==
  LET completed(d) == d.status = "completed"
  IN  MapSeq(SelectSeq(docs, completed), Amount)

\* Quotation.aggregate([{ $match: { status: 'completed' } }, { $group: ... }])
RevenueStats(coll) ==
  LET m == CompletedAmounts(coll)
  IN  IF m = <<>> THEN <<>>
      ELSE <<[totalRevenue |-> SumSeq(m),
              avgQuotationValue |-> Quot(SumSeq(m), Len(m)),
              maxQuotationValue |-> Max(Range(m)),
              minQuotationValue |-> Min(Range(m))]>>

QuotationCategoryStats(coll) ==
  LET cat(d) == d.productCategory
      ids == GroupIds(coll, cat)
      grp(c) == LET in(d) == d.productCategory = c
                    g == MapSeq(SelectSeq(coll, in), Amount)
                IN  [id |-> c, count |-> Len(g), totalValue |-> SumSeq(g)]
      cnt(g) == g.count
  IN  SortDesc(MapSeq(ids, grp), cnt)

\* the response-time aggregation over the documents in the given statuses
ResponseTimeStats(coll, statuses) ==
  LET answered(d) == d.status \in statuses
      m == MapSeq(SelectSeq(coll, answered), ResponseTime)
  IN  IF m = <<>> THEN <<>>
      ELSE <<[avgResponseTime |-> Quot(SumSeq(m), Len(m)),
              maxResponseTime |-> Max(Range(m)),
              minResponseTime |-> Min(Range(m))]>>

\* the revenue aggregation of one month
MonthRevenue(coll, w) ==
  LET hit(d) == InWindow(d, w) /\ d.status = "completed"
      m == MapSeq(SelectSeq(coll, hit), Amount)
  IN  IF m = <<>> THEN <<>> ELSE <<[total |-> SumSeq(m)]>>

\* iteration (i = 5 .. 0) of the monthly loop that await k belongs to
QuotationIter(k) == 5 - ((k - 9) \div 2)

\* the result of the k-th await
QuotationQuery(k, r) ==
  LET status(s) == LET p(d) == d.status = s IN countDocuments(quotations, p)
      recent(d) == d.createdAt >= r.startDate
      w == MonthWindow(r.date, QuotationIter(k))
      inMonth(d) == InWindow(d, w)
  IN  CASE k = 1 -> countDocuments(quotations, Every)
        [] k = 2 -> status("pending")
        [] k = 3 -> status("processing")
        [] k = 4 -> status("completed")
        [] k = 5 -> status("rejected")
        [] k = 6 -> countDocuments(quotations, recent)
        [] k = 7 -> RevenueStats(quotations)
        [] k = 8 -> QuotationCategoryStats(quotations)
        [] k \in 9..20 /\ k % 2 = 1 -> countDocuments(quotations, inMonth)
        [] k \in 9..20 /\ k % 2 = 0 -> MonthRevenue(quotations, w)
        [] k = 21 -> ResponseTimeStats(quotations, {"completed", "rejected"})

\* monthlyTrends.push(...) after the second await of an iteration
QuotationPush(k, r, v) ==
  IF k \in 9..20 /\ k % 2 = 0
  THEN Append(r.trend,
         [month |-> IsoMonth(MonthWindow(r.date, QuotationIter(k)).startOfMonth),
          count |-> r.vals[k - 1],
          revenue |-> IF v = <<>> THEN 0 ELSE v[1].total])
  ELSE r.trend

\* `const date = new Date()` runs after await k: an iteration starts there
QuotationClock(k) == k \in 8..18 /\ k % 2 = 0

QuotationData(v, trend) ==
  [overview |->
     [totalQuotations |-> v[1], pendingQuotations |-> v[2],
      processingQuotations |-> v[3], completedQuotations |-> v[4],
      rejectedQuotations |-> v[5], recentQuotations |-> v[6]],
   revenueStats |-> FirstOrEmpty(v[7]),
   categoryStats |-> v[8],
   monthlyTrends |-> trend,
   responseTimeStats |-> FirstOrEmpty(v[21])]

getQuotationReports ==
  /\ req.route = "quotations"
  /\ \/ /\ UNCHANGED log
        /\ LET k == Len(req.vals) + 1
               v == QuotationQuery(k, req)
               r == [req EXCEPT !.at = writes.all, !.vals = Append(@, v),
                                !.trend = QuotationPush(k, req, v),
                                !.date = IF QuotationClock(k) THEN now ELSE @]
           IN  IF k < QuotationAwaits
               THEN req' = r /\ UNCHANGED <<resp, prev>>
               ELSE /\ req' = NoReq
                    /\ resp' = Success(r, QuotationData(r.vals, r.trend))
                    /\ prev' = resp
     \/ \E error \in Errors : Catch(error)
  /\ UNCHANGED <<now, tz, products, suppliers, users, quotations,
                 reservations, auth, inbox, writes, ticks, updates>>

----------------------------------------------------------------------------
(* getReservationReports                                                    *)

ReservationAwaits == 15

\* iteration (i = 5 .. 0) of the monthly loop that await k belongs to
ReservationIter(k) == 5 - (k - 7)

ReservationCustomerStats(coll) ==
  LET email(d) == d.email
      ids == GroupIds(coll, email)
      grp(e) == LET in(d) == d.email = e
                IN  [id |-> e, reservationCount |-> countDocuments(coll, in)]
      cnt(g) == g.reservationCount
  IN  Limit(SortDesc(MapSeq(ids, grp), cnt), 10)

ReservationStatusDistribution(coll) ==
  LET st(d) == d.status
      ids == GroupIds(coll, st)
      grp(x) == LET in(d) == d.status = x
                IN  [id |-> x, count |-> countDocuments(coll, in)]
      cnt(g) == g.count
  IN  SortDesc(MapSeq(ids, grp), cnt)

ReservationQuery(k, r) ==
  LET status(s) == LET p(d) == d.status = s IN countDocuments(reservations, p)
      recent(d) == d.createdAt >= r.startDate
      w == MonthWindow(r.date, ReservationIter(k))
      inMonth(d) == InWindow(d, w)
  IN  CASE k = 1 -> countDocuments(reservations, Every)
        [] k = 2 -> status("pending")
        [] k = 3 -> status("confirmed")
        [] k = 4 -> status("completed")
        [] k = 5 -> status("cancelled")
        [] k = 6 -> countDocuments(reservations, recent)
        [] k \in 7..12 -> countDocuments(reservations, inMonth)
        [] k = 13 -> ReservationCustomerStats(reservations)
        [] k = 14 -> ReservationStatusDistribution(reservations)
        [] k = 15 -> ResponseTimeStats(reservations,
                                       {"confirmed", "completed", "cancelled"})

ReservationPush(k, r, v) ==
  IF k \in 7..12
  THEN Append(r.trend,
         [month |-> IsoMonth(MonthWindow(r.date, ReservationIter(k)).startOfMonth),
          count |-> v])
  ELSE r.trend

ReservationClock(k) == k \in 6..11

ReservationData(v, trend) ==
  [overview |->
     [totalReservations |-> v[1], pendingReservations |-> v[2],
      confirmedReservations |-> v[3], completedReservations |-> v[4],
      cancelledReservations |-> v[5], recentReservations |-> v[6]],
   monthlyTrends |-> trend,
   topCustomers |-> v[13],
   statusDistribution |-> v[14],
   responseTimeStats |-> FirstOrEmpty(v[15])]

getReservationReports ==
  /\ req.route = "reservations"
  /\ \/ /\ UNCHANGED log
        /\ LET k == Len(req.vals) + 1
               v == ReservationQuery(k, req)
               r == [req EXCEPT !.at = writes.all, !.vals = Append(@, v),
                                !.trend = ReservationPush(k, req, v),
                                !.date = IF ReservationClock(k) THEN now ELSE @]
           IN  IF k < ReservationAwaits
               THEN req' = r /\ UNCHANGED <<resp, prev>>
               ELSE /\ req' = NoReq
                    /\ resp' = Success(r, ReservationData(r.vals, r.trend))
                    /\ prev' = resp
     \/ \E error \in Errors : Catch(error)
  /\ UNCHANGED <<now, tz, products, suppliers, users, quotations,
                 reservations, auth, inbox, writes, ticks, updates>>

----------------------------------------------------------------------------
(* getProductReports                                                        *)

ProductAwaits == 10

Active(d) == d.isActive
\* a low-stock filter with a strict comparison
LowStockStrict(d) == d.stock < d.minStock /\ d.isActive
LowStock(d) == d.stock <= d.minStock /\ d.isActive
\* an out-of-stock filter that leaves the retired products in
OutOfStockOfAll(d) == d.stock = 0
OutOfStock(d) == d.stock = 0 /\ d.isActive
Price(d) == d.price
StockValue(d) == d.price * d.stock

\* category statistics that leave out the products without a category
ProductCategoryStatsNamed(coll) ==
  LET named(d) == d.isActive /\ d.category # "none"
      act == SelectSeq(coll, named)
      cat(d) == d.category
      ids == GroupIds(act, cat)
      grp(c) == LET in(d) == d.category = c
                    g == SelectSeq(act, in)
                IN  [id |-> c, count |-> Len(g),
                     totalValue |-> SumSeq(MapSeq(g, StockValue))]
      cnt(g) == g.count
  IN  SortDesc(MapSeq(ids, grp), cnt)

ProductCategoryStats(coll) ==
  LET act == SelectSeq(coll, Active)
      cat(d) == d.category
      ids == GroupIds(act, cat)
      grp(c) == LET in(d) == d.category = c
                    g == SelectSeq(act, in)
                IN  [id |-> c, count |-> Len(g),
                     totalValue |-> SumSeq(MapSeq(g, StockValue))]
      cnt(g) == g.count
  IN  SortDesc(MapSeq(ids, grp), cnt)

StockValueStats(coll) ==
  LET act == SelectSeq(coll, Active)
      p == MapSeq(act, Price)
  IN  IF act = <<>> THEN <<>>
      ELSE <<[totalStockValue |-> SumSeq(MapSeq(act, StockValue)),
              avgPrice |-> Quot(SumSeq(p), Len(p)),
              maxPrice |-> Max(Range(p)),
              minPrice |-> Min(Range(p))]>>

\* $match, $group by supplier, $lookup, $unwind, $sort; avgPrice only in the
\* supplier report
SupplierGroups(prods, sups) ==
  LET hit(d) == d.isActive /\ d.supplier # Missing
      m == SelectSeq(prods, hit)
      sup(d) == d.supplier
      ids == GroupIds(m, sup)
      grp(x) == LET in(d) == d.supplier = x
                    g == SelectSeq(m, in)
                IN  [id |-> x, productCount |-> Len(g),
                     totalStockValue |-> SumSeq(MapSeq(g, StockValue)),
                     avgPrice |-> Quot(SumSeq(MapSeq(g, Price)), Len(g)),
                     supplierInfo |-> findById(sups, x)]
      joined(g) == g.supplierInfo # <<>>
      unwind(g) == [g EXCEPT !.supplierInfo = @[1]]
      cnt(g) == g.productCount
  IN  SortDesc(MapSeq(SelectSeq(MapSeq(ids, grp), joined), unwind), cnt)

ProductSupplierStats(prods, sups) ==
  LET drop(g) == [id |-> g.id, productCount |-> g.productCount,
                  totalStockValue |-> g.totalStockValue,
                  supplierInfo |-> g.supplierInfo]
  IN  Limit(MapSeq(SupplierGroups(prods, sups), drop), 10)

LowStockList(coll) ==
  LET hit(d) == d.stock <= d.minStock /\ d.stock > 0 /\ d.isActive
      sel(d) == [id |-> d.id, stock |-> d.stock, minStock |-> d.minStock,
                 category |-> d.category, price |-> d.price]
      stock(d) == d.stock
  IN  SortAsc(MapSeq(SelectSeq(coll, hit), sel), stock)

OutOfStockList(coll) ==
  LET sel(d) == [id |-> d.id, stock |-> d.stock, category |-> d.category,
                 price |-> d.price, updatedAt |-> d.updatedAt]
      upd(d) == d.updatedAt
  IN  SortDesc(MapSeq(SelectSeq(coll, OutOfStock), sel), upd)

ProductQuery(k, r) ==
  LET recent(d) == d.createdAt >= r.startDate
  IN  CASE k = 1 -> countDocuments(products, Every)
        [] k = 2 -> countDocuments(products, Active)
        [] k = 3 -> countDocuments(products, LowStock)
        [] k = 4 -> countDocuments(products, OutOfStock)
        [] k = 5 -> ProductCategoryStats(products)
        [] k = 6 -> StockValueStats(products)
        [] k = 7 -> countDocuments(products, recent)
        [] k = 8 -> ProductSupplierStats(products, suppliers)
        [] k = 9 -> LowStockList(products)
        [] k = 10 -> OutOfStockList(products)

ProductData(v) ==
  [overview |->
     [totalProducts |-> v[1], activeProducts |-> v[2],
      lowStockProducts |-> v[3], outOfStockProducts |-> v[4],
      recentProducts |-> v[7]],
   categoryDistribution |-> v[5],
   stockValue |-> FirstOrEmpty(v[6]),
   topSuppliers |-> v[8],
   lowStockProducts |-> v[9],
   outOfStockProducts |-> v[10]]

getProductReports ==
  /\ req.route = "products"
  /\ \/ /\ UNCHANGED log
        /\ LET k == Len(req.vals) + 1
               r == [req EXCEPT !.at = writes.all,
                                !.vals = Append(@, ProductQuery(k, req))]
           IN  IF k < ProductAwaits
               THEN req' = r /\ UNCHANGED <<resp, prev>>
               ELSE /\ req' = NoReq
                    /\ resp' = Success(r, ProductData(r.vals))
                    /\ prev' = resp
     \/ \E error \in Errors : Catch(error)
  /\ UNCHANGED <<now, tz, products, suppliers, users, quotations,
                 reservations, auth, inbox, writes, ticks, updates>>

----------------------------------------------------------------------------
(* getSupplierReports                                                       *)

SupplierAwaits == 8

\* a window of 31 days
ThirtyOneDays == 31 * DayTicks

\* 30 * 24 * 60 * 60 * 1000 milliseconds
ThirtyDays == 30 * DayTicks

LocationStats(coll) ==
  LET loc(d) == d.location
      ids == GroupIds(coll, loc)
      grp(x) == LET in(d) == d.location = x
                IN  [id |-> x, count |-> countDocuments(coll, in)]
      cnt(g) == g.count
  IN  SortDesc(MapSeq(ids, grp), cnt)

SupplierQuery(k, r) ==
  LET inactive(d) == ~d.isActive
      expired(d) == d.agreementEndDate # Missing /\ d.agreementEndDate < r.date
      expiring(d) == /\ d.agreementEndDate # Missing
                     /\ d.agreementEndDate >= r.date
                     /\ d.agreementEndDate <= r.date + ThirtyDays
      recent(d) == d.createdAt >= r.startDate
  IN  CASE k = 1 -> countDocuments(suppliers, Every)
        [] k = 2 -> countDocuments(suppliers, Active)
        [] k = 3 -> countDocuments(suppliers, inactive)
        [] k = 4 -> countDocuments(suppliers, expired)
        [] k = 5 -> countDocuments(suppliers, expiring)
        [] k = 6 -> SupplierGroups(products, suppliers)
        [] k = 7 -> countDocuments(suppliers, recent)
        [] k = 8 -> LocationStats(suppliers)

\* `const currentDate = new Date()` runs after the third await
SupplierClock(k) == k = 3

SupplierData(v) ==
  [overview |->
     [totalSuppliers |-> v[1], activeSuppliers |-> v[2],
      inactiveSuppliers |-> v[3], expiredAgreements |-> v[4],
      expiringSoon |-> v[5], recentSuppliers |-> v[7]],
   supplierProductStats |-> v[6],
   locationDistribution |-> v[8]]

getSupplierReports ==
  /\ req.route = "suppliers"
  /\ \/ /\ UNCHANGED log
        /\ LET k == Len(req.vals) + 1
               r == [req EXCEPT !.at = writes.all,
                                !.vals = Append(@, SupplierQuery(k, req)),
                                !.date = IF SupplierClock(k) THEN now ELSE @]
           IN  IF k < SupplierAwaits
               THEN req' = r /\ UNCHANGED <<resp, prev>>
               ELSE /\ req' = NoReq
                    /\ resp' = Success(r, SupplierData(r.vals))
                    /\ prev' = resp
     \/ \E error \in Errors : Catch(error)
  /\ UNCHANGED <<now, tz, products, suppliers, users, quotations,
                 reservations, auth, inbox, writes, ticks, updates>>

----------------------------------------------------------------------------
(* getUserReports                                                           *)

UserAwaits == 22

\* a window for activeUsers that follows the period of the request
ActiveWindowOfPeriod == Days(req.period)

\* thirtyDaysAgo.setDate(thirtyDaysAgo.getDate() - 30)
ActiveWindow == 30

\* the window of iteration i of a seven-day loop: date and nextDate
DayWindow(date, i) ==
  LET d == setDate(date, getDate(date, tz) - i, tz)
  IN  [date |-> d, nextDate |-> setDate(d, getDate(d, tz) + 1, tz)]

TopActiveUsers(coll) ==
  LET customer(d) == d.role = "customer"
      sel(d) == [id |-> d.id, loginCount |-> d.loginCount,
                 lastLogin |-> d.lastLogin]
      n(d) == d.loginCount
  IN  Limit(SortDesc(MapSeq(SelectSeq(coll, customer), sel), n), 5)

\* $avg skips the values that are not numbers (lastLogin is a date), $max and
\* $min skip the missing ones
ActivityStats(coll) ==
  LET n(d) == d.loginCount
      c == MapSeq(coll, n)
      logins == {coll[i].lastLogin : i \in DOMAIN coll} \ {Missing}
  IN  IF coll = <<>> THEN <<>>
      ELSE <<[avgLastLogin |-> Missing,
              maxLastLogin |-> IF logins = {} THEN Missing ELSE Max(logins),
              minLastLogin |-> IF logins = {} THEN Missing ELSE Min(logins),
              avgLoginCount |-> Quot(SumSeq(c), Len(c)),
              maxLoginCount |-> Max(Range(c)),
              totalLogins |-> SumSeq(c)]>>

Boundaries == <<0, 1, 5, 10, 20, 50, 100>>

\* a bucket assignment with inclusive upper boundaries
BucketOfInclusive(n) ==
  IF n < Boundaries[1] \/ n > Boundaries[Len(Boundaries)] THEN Len(Boundaries)
  ELSE CHOOSE b \in 1..(Len(Boundaries) - 1) :
         /\ Boundaries[b] <= n
         /\ n < Boundaries[b + 1] \/ (b = Len(Boundaries) - 1 /\ n = Boundaries[b + 1])

\* the position in Boundaries of the bucket of n, Len(Boundaries) for the
\* default bucket
BucketOf(n) ==
  IF n < Boundaries[1] \/ n >= Boundaries[Len(Boundaries)] THEN Len(Boundaries)
  ELSE CHOOSE b \in 1..(Len(Boundaries) - 1) :
         Boundaries[b] <= n /\ n < Boundaries[b + 1]

\* the _id of a bucket: its lower boundary, '100+' for the default bucket
BucketId(b) ==
  CASE b = 1 -> "0" [] b = 2 -> "1" [] b = 3 -> "5" [] b = 4 -> "10"
    [] b = 5 -> "20" [] b = 6 -> "50" [] b = 7 -> "100+"

\* $bucket, then { $sort: { _id: 1 } }: numbers in order, the string last
LoginDistribution(coll) ==
  LET bucket(d) == BucketOf(d.loginCount)
      ids == GroupIds(coll, bucket)
      grp(b) == LET in(d) == BucketOf(d.loginCount) = b
                    u(d) == [name |-> d.id, email |-> d.id,
                             loginCount |-> d.loginCount]
                    g == SelectSeq(coll, in)
                IN  [id |-> BucketId(b), rank |-> b, count |-> Len(g),
                     users |-> MapSeq(g, u)]
      rank(g) == g.rank
      out(g) == [id |-> g.id, count |-> g.count, users |-> g.users]
  IN  MapSeq(SortAsc(MapSeq(ids, grp), rank), out)

\* iteration (i = 6 .. 0) of the seven-day loops
RegistrationIter(k) == 11 - k
ActivityIter(k) == 22 - k

UserQuery(k, r) ==
  LET role(x) == LET p(d) == d.role = x IN countDocuments(users, p)
      recent(d) == d.createdAt >= r.startDate
      active(d) == d.lastLogin # Missing
                   /\ d.lastLogin >= StartDate(r.date, ActiveWindow)
      wr == DayWindow(r.date, RegistrationIter(k))
      created(d) == d.createdAt >= wr.date /\ d.createdAt < wr.nextDate
      wa == DayWindow(r.date, ActivityIter(k))
      loggedIn(d) == /\ d.lastLogin # Missing
                     /\ d.lastLogin >= wa.date /\ d.lastLogin < wa.nextDate
  IN  CASE k = 1 -> countDocuments(users, Every)
        [] k = 2 -> role("admin")
        [] k = 3 -> role("customer")
        [] k = 4 -> countDocuments(users, recent)
        [] k \in 5..11 -> countDocuments(users, created)
        [] k = 12 -> countDocuments(users, active)
        [] k = 13 -> TopActiveUsers(users)
        [] k = 14 -> ActivityStats(users)
        [] k = 15 -> LoginDistribution(users)
        [] k \in 16..22 -> countDocuments(users, loggedIn)

\* registrationTrends.push(...)
RegistrationPush(k, r, v) ==
  IF k \in 5..11
  THEN Append(r.trend,
         [date |-> IsoDate(DayWindow(r.date, RegistrationIter(k)).date),
          count |-> v])
  ELSE r.trend

\* activityTrends.push(...)
ActivityPush(k, r, v) ==
  IF k \in 16..22
  THEN Append(r.trend2,
         [date |-> IsoDate(DayWindow(r.date, ActivityIter(k)).date),
          activeUsers |-> v])
  ELSE r.trend2

\* `new Date()` runs after await k: a loop iteration or thirtyDaysAgo
UserClock(k) == k \in 4..11 \/ k \in 15..21

UserData(v, trend, trend2) ==
  [overview |->
     [totalUsers |-> v[1], adminUsers |-> v[2], customerUsers |-> v[3],
      recentRegistrations |-> v[4], activeUsers |-> v[12]],
   registrationTrends |-> trend,
   activityStats |-> FirstOrEmpty(v[14]),
   topActiveUsers |-> v[13],
   loginDistribution |-> v[15],
   activityTrends |-> trend2]

getUserReports ==
  /\ req.route = "users"
  /\ \/ /\ UNCHANGED log
        /\ LET k == Len(req.vals) + 1
               v == UserQuery(k, req)
               r == [req EXCEPT !.at = writes.all, !.vals = Append(@, v),
                                !.trend = RegistrationPush(k, req, v),
                                !.trend2 = ActivityPush(k, req, v),
                                !.date = IF UserClock(k) THEN now ELSE @]
           IN  IF k < UserAwaits
               THEN req' = r /\ UNCHANGED <<resp, prev>>
               ELSE /\ req' = NoReq
                    /\ resp' = Success(r, UserData(r.vals, r.trend, r.trend2))
                    /\ prev' = resp
     \/ \E error \in Errors : Catch(error)
  /\ UNCHANGED <<now, tz, products, suppliers, users, quotations,
                 reservations, auth, inbox, writes, ticks, updates>>

----------------------------------------------------------------------------
(* getDashboardOverview                                                     *)

\* the j-th query of the Promise.all array
DashboardCount(j, r) ==
  LET pendingQ(d) == d.status = "pending"
      recent(d) == d.createdAt >= r.startDate
  IN  CASE j = 1 -> countDocuments(products, Active)
        [] j = 2 -> countDocuments(suppliers, Active)
        [] j = 3 -> countDocuments(users, Every)
        [] j = 4 -> countDocuments(quotations, Every)
        [] j = 5 -> countDocuments(reservations, Every)
        [] j = 6 -> countDocuments(products, LowStock)
        [] j = 7 -> countDocuments(quotations, pendingQ)
        [] j = 8 -> countDocuments(reservations, pendingQ)
        [] j = 9 -> countDocuments(quotations, recent)
        [] j = 10 -> countDocuments(reservations, recent)

\* the revenue of all quotations, whatever their status
RevenueDataOfAll(coll) ==
  LET m == MapSeq(coll, Amount)
  IN  IF m = <<>> THEN <<>> ELSE <<[totalRevenue |-> SumSeq(m)]>>

\* Quotation.aggregate([{ $match: completed }, { $group: { totalRevenue } }])
RevenueData(coll) ==
  LET m == CompletedAmounts(coll)
  IN  IF m = <<>> THEN <<>> ELSE <<[totalRevenue |-> SumSeq(m)]>>

\* revenueData[0]?.totalRevenue || 0
TotalRevenue(revenueData) ==
  IF revenueData = <<>> THEN 0 ELSE revenueData[1].totalRevenue

\* a payload that takes the results by order of arrival of the first two
DashboardDataSwapped(v, revenueData) ==
  [overview |->
     [totalProducts |-> v[2], totalSuppliers |-> v[1], totalUsers |-> v[3],
      totalQuotations |-> v[4], totalReservations |-> v[5],
      totalRevenue |-> TotalRevenue(revenueData)],
   alerts |->
     [lowStockProducts |-> v[6], pendingQuotations |-> v[7],
      pendingReservations |-> v[8]],
   recentActivity |->
     [recentQuotations |-> v[9], recentReservations |-> v[10]]]

\* the data of res.json, lines 573-593
DashboardData(v, revenueData) ==
  [overview |->
     [totalProducts |-> v[1], totalSuppliers |-> v[2], totalUsers |-> v[3],
      totalQuotations |-> v[4], totalReservations |-> v[5],
      totalRevenue |-> TotalRevenue(revenueData)],
   alerts |->
     [lowStockProducts |-> v[6], pendingQuotations |-> v[7],
      pendingReservations |-> v[8]],
   recentActivity |->
     [recentQuotations |-> v[9], recentReservations |-> v[10]]]

getDashboardOverview ==
  /\ req.route = "dashboard"
  /\ \/ \E j \in 1..DashboardCounts :
          /\ req.vals[j] = Missing
          /\ req' = [req EXCEPT !.at = writes.all,
                              !.vals[j] = DashboardCount(j, req)]
          /\ UNCHANGED <<resp, prev, log>>
     \/ /\ \A j \in 1..DashboardCounts : req.vals[j] # Missing
        /\ req' = NoReq
        /\ resp' = Success(req, DashboardData(req.vals, RevenueData(quotations)))
        /\ prev' = resp
        /\ UNCHANGED log
     \/ \E error \in Errors : Catch(error)
  /\ UNCHANGED <<now, tz, products, suppliers, users, quotations,
                 reservations, auth, inbox, writes, ticks, updates>>

----------------------------------------------------------------------------
(* What the specifications share.  Every behaviour starts with empty        *)
(* collections but for one administrator, who sends the report requests.    *)

\* the instant at which the behaviours start
StartOfRun == NewDate(FirstYear, 0, 10, 0)

\* the administrator, with n requests made before the behaviour starts
Admin(n) ==
  [id |-> 1, role |-> "admin", isActive |-> TRUE, loginCount |-> n,
   lastLogin |-> Missing, createdAt |-> StartOfRun - 3 * DayTicks]

InitAt(t, z, n) ==
  /\ now = t /\ tz = z
  /\ products = <<>> /\ suppliers = <<>> /\ quotations = <<>>
  /\ reservations = <<>>
  /\ users = <<Admin(n)>>
  /\ auth = NoAuth /\ inbox = <<>> /\ req = NoReq
  /\ resp = NoResp /\ prev = NoResp /\ log = <<>>
  /\ writes = [crud |-> 0, all |-> 0] /\ ticks = 0
  /\ updates = NoUpdates

\* the requests received so far
Requests ==
  (IF auth = NoAuth THEN 0 ELSE 1)
    + Len(inbox) + (IF req.route = "none" THEN 0 ELSE 1)
    + (IF resp = NoResp THEN 0 ELSE 1) + (IF prev = NoResp THEN 0 ELSE 1)

\* no request is being served
Quiet == auth = NoAuth /\ req.route = "none" /\ inbox = <<>>

\* no request has been received yet
Idle == Quiet /\ resp = NoResp

\* the queries of the dashboard in service have completed in the order in
\* which Promise.all lists them; where nothing is written while the
\* dashboard runs, any other order gives the same results
DashboardInOrder ==
  req.route = "dashboard" =>
    \A j \in 1..(DashboardCounts - 1) :
      req.vals[j] = Missing => req.vals[j + 1] = Missing

----------------------------------------------------------------------------
(* Specification of the monthly trends: requests for the quotation and the  *)
(* reservation report on every day of FirstYear, in three time zones        *)

\* the offsets of the server's time zone
Zones == {0 - 1, 0, 1}

\* the days of the month on which a request is made
RequestDays == {1, 15, 28, 29, 30, 31}

InitMonthly ==
  \E m \in 0..11, d \in RequestDays, z \in Zones :
    /\ d <= DaysInMonth(FirstYear, m)
    /\ InitAt(MakeDay(FirstYear, m, d) * DayTicks, z, 0)

NextMonthly ==
  \/ \E s \in {"pending", "completed"} :
       Idle /\ quotations = <<>> /\ createQuotation(s, "paint", MaxAmount)
  \/ Idle /\ reservations = <<>> /\ createReservation("pending", "a@ns")
  \/ Idle /\ Advance(1)
  \/ \E rt \in {"quotations", "reservations"} :
       Idle /\ protect(rt, Missing, 1)
  \/ protectUpdate
  \/ Begin
  \/ getQuotationReports
  \/ getReservationReports

SpecMonthly == InitMonthly /\ [][NextMonthly]_vars

----------------------------------------------------------------------------
(* Specification of the product report: products of every shape, one       *)
(* report over them                                                         *)

InitProduct == InitAt(StartOfRun, 0, 0)

NextProduct ==
  \/ \E a \in BOOLEAN, st \in 0..MaxStock, ms \in 0..1, c \in Categories :
       Idle /\ createProduct(a, st, ms, c, 1, Missing)
  \/ \E id \in Ids, op \in {"add", "subtract"} : Idle /\ updateStock(id, op, 1)
  \/ \E id \in Ids, a \in BOOLEAN : Idle /\ updateProduct(id, a)
  \/ \E id \in Ids : Idle /\ deleteProduct(id)
  \/ Idle /\ protect("products", Missing, 1)
  \/ protectUpdate
  \/ Begin
  \/ getProductReports

SpecProduct == InitProduct /\ [][NextProduct]_vars

----------------------------------------------------------------------------
(* Specification of the user report                                         *)

\* login counts next to the boundaries of the histogram
LoginCounts == {0, 4, 9, 19, 49, 99, 100}

InitUser == \E n \in LoginCounts : InitAt(StartOfRun, 0, n)

NextUser ==
  \/ \E r \in Roles : Idle /\ register(r)
  \/ \E id \in Ids \ {1} : Idle /\ deleteUser(id)
  \/ \E d \in {1, DayTicks} : Idle /\ Advance(d)
  \/ \E u \in Ids : Idle /\ protect("users", Missing, u)
  \/ protectUpdate
  \/ Begin
  \/ getUserReports

SpecUser == InitUser /\ [][NextUser]_vars

----------------------------------------------------------------------------
(* Specification of the revenue figures: the quotation report and the       *)
(* dashboard over quotations of every status                                *)

InitRevenue == InitAt(StartOfRun, 0, 0)

NextRevenue ==
  \/ \E st \in QuotationStatuses, a \in 1..MaxAmount :
       Idle /\ createQuotation(st, "paint", a)
  \/ \E rt \in {"dashboard", "quotations"} :
       /\ Requests < 2 /\ req.route = "none" /\ resp = NoResp
       /\ \A i \in DOMAIN inbox : inbox[i].route # rt
       /\ protect(rt, Missing, 1)
  \/ protectUpdate
  \/ Begin
  \/ getQuotationReports
  \/ getDashboardOverview /\ DashboardInOrder'

SpecRevenue == InitRevenue /\ [][NextRevenue]_vars

----------------------------------------------------------------------------
(* Specification of the report engine: one request to any of the six        *)
(* routes, with documents created and the clock advancing beside it.  A     *)
(* write to a collection that a report does not read cannot change the      *)
(* report, so a behaviour writes only to the collections its report reads;  *)
(* at most one write and one advance of the clock fall inside a report, and *)
(* none inside the dashboard's ten parallel queries.                        *)

Periods == (0..MaxPeriod) \cup {Missing}

Reads(route) ==
  CASE route = "products" -> {"products", "suppliers"}
    [] route = "suppliers" -> {"products", "suppliers"}
    [] route = "users" -> {"users"}
    [] route = "quotations" -> {"quotations"}
    [] route = "reservations" -> {"reservations"}
    [] route = "dashboard" ->
         {"products", "suppliers", "users", "quotations", "reservations"}

\* the collections written so far
Written ==
  (IF products = <<>> THEN {} ELSE {"products"})
    \cup (IF suppliers = <<>> THEN {} ELSE {"suppliers"})
    \cup (IF Len(users) = 1 THEN {} ELSE {"users"})
    \cup (IF quotations = <<>> THEN {} ELSE {"quotations"})
    \cup (IF reservations = <<>> THEN {} ELSE {"reservations"})

\* the routes requested so far
Requested ==
  {inbox[i].route : i \in DOMAIN inbox} \cup ({req.route, resp.route, prev.route} \ {"none"})

\* a write to collection c may happen now
MayWrite(c) ==
  /\ \A rt \in Requested : c \in Reads(rt)
  /\ resp = NoResp
  /\ ~Quiet => req.route \notin {"none", "dashboard"} /\ writes.all = req.w0

MayAdvance ==
  /\ resp = NoResp
  /\ ~Quiet => req.route \notin {"none", "dashboard"} /\ now = req.t0

Init == InitAt(StartOfRun, 0, 0)

\* the dashboard is requested before the clock has moved: its ten counts
\* complete in any order, and no window of it is as short as the run
Next ==
  \/ MayWrite("products") /\ createProduct(TRUE, 1, 1, "paint", 1, 1)
  \/ MayWrite("suppliers") /\ createSupplier(TRUE, "kandy", Missing)
  \/ MayWrite("users") /\ register("customer")
  \/ MayWrite("quotations") /\ createQuotation("completed", "paint", 1)
  \/ MayWrite("reservations") /\ createReservation("pending", "a@ns")
  \/ MayAdvance /\ Advance(DayTicks)
  \/ \E rt \in Routes, p \in Periods :
       /\ Requests < 1
       /\ rt = "dashboard" => p = Missing /\ ticks = 0
       /\ Written \subseteq Reads(rt)
       /\ protect(rt, p, 1)
  \/ protectUpdate
  \/ Begin
  \/ getProductReports
  \/ getSupplierReports
  \/ getUserReports
  \/ getQuotationReports
  \/ getReservationReports
  \/ getDashboardOverview

Spec == Init /\ [][Next]_vars

----------------------------------------------------------------------------
(* Specification of repeated requests: the same report requested twice,     *)
(* with writes before and between the requests and the clock advancing      *)
(* between the two handlers                                                 *)

InitTwice == InitAt(StartOfRun, 0, 0)

MayWriteTwice(c) == \A rt \in Requested : c \in Reads(rt)

\* the route and period of the requests so far, if any
SameAsBefore(rt, p) ==
  /\ \A i \in DOMAIN inbox : inbox[i].route = rt /\ inbox[i].period = p
  /\ req.route # "none" => req.route = rt /\ req.period = p
  /\ resp # NoResp => resp.route = rt /\ resp.period = p

NextTwice ==
  \/ Quiet /\ MayWriteTwice("products") /\ createProduct(TRUE, 1, 1, "paint", 1, 1)
  \/ Quiet /\ MayWriteTwice("suppliers") /\ createSupplier(TRUE, "kandy", Missing)
  \/ Quiet /\ MayWriteTwice("users") /\ register("customer")
  \/ Quiet /\ MayWriteTwice("quotations") /\ createQuotation("completed", "paint", 1)
  \/ Quiet /\ MayWriteTwice("reservations") /\ createReservation("pending", "a@ns")
  \/ req.route = "none" /\ resp # NoResp /\ Advance(DayTicks)
  \/ \E rt \in Routes, p \in {0, Missing} :
       /\ Requests < 2
       /\ req.route = "none"
       /\ rt = "dashboard" => p = Missing
       /\ Written \subseteq Reads(rt)
       /\ SameAsBefore(rt, p)
       /\ protect(rt, p, 1)
  \/ protectUpdate
  \/ Begin
  \/ getProductReports
  \/ getSupplierReports
  \/ getUserReports
  \/ getQuotationReports
  \/ getReservationReports
  \/ getDashboardOverview /\ DashboardInOrder'

SpecTwice == InitTwice /\ [][NextTwice]_vars

----------------------------------------------------------------------------
(* Claims about the monthly trends                                          *)

Served(route) == resp.route = route /\ resp.status = 200

\* the calendar month (<<year, month>>) of an instant on the server's calendar
LocalMonth(t) == <<getFullYear(t, tz), getMonth(t, tz) + 1>>

\* months since year 0 of a label <<year, month>>
MonthNumber(l) == l[1] * 12 + l[2]

SixConsecutiveMonths(trend, t) ==
  /\ Len(trend) = 6
  /\ \A k \in 1..5 :
       MonthNumber(trend[k + 1].month) = MonthNumber(trend[k].month) + 1
  /\ trend[6].month = LocalMonth(t)

\* C4: on every request date and in every time zone, monthlyTrends of the
\* quotation and of the reservation report has exactly 6 points whose month
\* labels are consecutive, strictly increasing calendar months, the last one
\* being the current month.
C4_SixConsecutiveMonths ==
  (Served("quotations") \/ Served("reservations")) =>
    SixConsecutiveMonths(resp.body.data.monthlyTrends, resp.t0)

\* the documents of a collection created in the calendar month l
CreatedIn(coll, l) == LET hit(d) == LocalMonth(d.createdAt) = l IN SelectSeq(coll, hit)

\* the number of points of a trend whose month is that of the document
PointsCounting(trend, d) ==
  Cardinality({k \in DOMAIN trend : trend[k].month = LocalMonth(d.createdAt)})

\* C5: every monthlyTrends point carries the number of documents created at
\* any instant of its calendar month (and, for quotations, the revenue of the
\* completed ones among them); every document created in the six months
\* ending with the current one is counted in exactly one point.
C5_PointsCoverWholeMonths ==
  /\ Served("quotations") =>
       LET trend == resp.body.data.monthlyTrends
       IN  /\ \A k \in DOMAIN trend :
                /\ trend[k].count = Len(CreatedIn(quotations, trend[k].month))
                /\ trend[k].revenue =
                     SumSeq(CompletedAmounts(CreatedIn(quotations, trend[k].month)))
           /\ \A i \in DOMAIN quotations :
                LET age == MonthNumber(LocalMonth(resp.t0))
                             - MonthNumber(LocalMonth(quotations[i].createdAt))
                IN  age \in 0..5 =>
                      /\ PointsCounting(trend, quotations[i]) = 1
                      /\ SumSeq([k \in DOMAIN trend |-> trend[k].count]) >= 1
  /\ Served("reservations") =>
       LET trend == resp.body.data.monthlyTrends
       IN  /\ \A k \in DOMAIN trend :
                trend[k].count = Len(CreatedIn(reservations, trend[k].month))
           /\ \A i \in DOMAIN reservations :
                LET age == MonthNumber(LocalMonth(resp.t0))
                             - MonthNumber(LocalMonth(reservations[i].createdAt))
                IN  age \in 0..5 => PointsCounting(trend, reservations[i]) = 1

----------------------------------------------------------------------------
(* Claims about the product report                                          *)

\* the response on hand was computed with no write since its handler began
Undisturbed == resp.w0 = resp.w1 /\ resp.w1 = writes.all

ProductIds(P(_)) == {products[i].id : i \in {j \in DOMAIN products : P(products[j])}}

ListIds(list) == {list[i].id : i \in DOMAIN list}

\* C2: the low-stock count is the number of active products with
\* stock <= minStock, the out-of-stock count the number of active products
\* with stock = 0, which are among the low-stock ones; the two detailed
\* lists share no product, the low-stock list holding only products with
\* 0 < stock <= minStock.
C2_StockCounts ==
  (Served("products") /\ Undisturbed) =>
    LET data == resp.body.data
        low(d) == d.isActive /\ d.stock <= d.minStock
        out(d) == d.isActive /\ d.stock = 0
        lowInStock(d) == d.isActive /\ 0 < d.stock /\ d.stock <= d.minStock
    IN  /\ data.overview.lowStockProducts = Cardinality(ProductIds(low))
        /\ data.overview.outOfStockProducts = Cardinality(ProductIds(out))
        /\ ProductIds(out) \subseteq ProductIds(low)
        /\ ListIds(data.lowStockProducts) \cap ListIds(data.outOfStockProducts) = {}
        /\ ListIds(data.lowStockProducts) = ProductIds(lowInStock)
        /\ ListIds(data.outOfStockProducts) = ProductIds(out)
        /\ \A i \in DOMAIN data.lowStockProducts :
             /\ 0 < data.lowStockProducts[i].stock
             /\ data.lowStockProducts[i].stock <= data.lowStockProducts[i].minStock

\* a report over a product low on stock, one at its minimum and one out of stock
C2_Witness ==
  /\ Served("products") /\ Undisturbed
  /\ resp.body.data.lowStockProducts # <<>>
  /\ resp.body.data.outOfStockProducts # <<>>
  /\ resp.body.data.overview.lowStockProducts = 2

\* C3: the counts of categoryDistribution sum to overview.activeProducts,
\* whatever the products are, also when some have no category.
C3_CategoryCountsSum ==
  (Served("products") /\ Undisturbed) =>
    LET data == resp.body.data
        dist == data.categoryDistribution
        active(d) == d.isActive
    IN  /\ SumSeq([i \in DOMAIN dist |-> dist[i].count]) = data.overview.activeProducts
        /\ data.overview.activeProducts = Cardinality(ProductIds(active))

\* a report over an active product without category and one with a category
C3_Witness ==
  /\ Served("products") /\ Undisturbed
  /\ Len(resp.body.data.categoryDistribution) = 2
  /\ \E i \in DOMAIN products : products[i].isActive /\ products[i].category = "none"

----------------------------------------------------------------------------
(* Claims about the user report                                             *)

\* the calendar day (UTC) i days before the day of instant t
DayBefore(t, i) == IsoDate(t - i * DayTicks)

\* the users whose date field f falls on the calendar day l
UsersOn(f(_), l) ==
  {i \in DOMAIN users : f(users[i]) # Missing /\ IsoDate(f(users[i])) = l}

CreatedAt(d) == d.createdAt
LastLogin(d) == d.lastLogin

\* C6: registrationTrends has 7 points, oldest first, one per calendar day
\* and ending today, each counting the users created on its day (a user
\* created earlier today is in today's point); activityTrends likewise
\* counts the users whose lastLogin falls on the day.
C6_DailyTrends ==
  (Served("users") /\ Undisturbed /\ resp.t0 = now) =>
    LET reg == resp.body.data.registrationTrends
        act == resp.body.data.activityTrends
    IN  /\ Len(reg) = 7 /\ Len(act) = 7
        /\ \A k \in 1..7 :
             /\ reg[k].date = DayBefore(now, 7 - k)
             /\ reg[k].count = Cardinality(UsersOn(CreatedAt, reg[k].date))
             /\ act[k].date = DayBefore(now, 7 - k)
             /\ act[k].activeUsers = Cardinality(UsersOn(LastLogin, act[k].date))

\* the lower boundary of the bucket that holds a login count, 100 for '100+'
LowerBoundary(n) ==
  IF n >= 100 THEN 100 ELSE IF n >= 50 THEN 50 ELSE IF n >= 20 THEN 20
  ELSE IF n >= 10 THEN 10 ELSE IF n >= 5 THEN 5 ELSE IF n >= 1 THEN 1 ELSE 0

\* the lower boundary that a bucket's _id names
BoundaryOfId(id) ==
  CASE id = "0" -> 0 [] id = "1" -> 1 [] id = "5" -> 5 [] id = "10" -> 10
    [] id = "20" -> 20 [] id = "50" -> 50 [] id = "100+" -> 100

\* C7: the bucket counts of loginDistribution sum to overview.totalUsers;
\* every user is listed in exactly one bucket, the one whose range holds the
\* user's loginCount ('100+' from 100 on); the buckets come in ascending
\* order of boundary, '100+' last.
C7_LoginHistogram ==
  (Served("users") /\ Undisturbed) =>
    LET data == resp.body.data
        dist == data.loginDistribution
    IN  /\ SumSeq([k \in DOMAIN dist |-> dist[k].count]) = data.overview.totalUsers
        /\ data.overview.totalUsers = Len(users)
        /\ \A k \in DOMAIN dist : dist[k].count = Len(dist[k].users)
        /\ \A i \in DOMAIN users :
             \E k \in DOMAIN dist :
               /\ BoundaryOfId(dist[k].id) = LowerBoundary(users[i].loginCount)
               /\ \A l \in DOMAIN dist :
                    Cardinality({j \in DOMAIN dist[l].users :
                                  dist[l].users[j].name = users[i].id})
                      = IF l = k THEN 1 ELSE 0
        /\ \A k, l \in DOMAIN dist :
             k < l => BoundaryOfId(dist[k].id) < BoundaryOfId(dist[l].id)

\* a report over a user with 100 logins and a user in a lower bucket
C7_Witness ==
  /\ Served("users") /\ Undisturbed
  /\ Len(resp.body.data.loginDistribution) = 2
  /\ \E i \in DOMAIN users : users[i].loginCount = 100
  /\ resp.body.data.loginDistribution[2].id = "100+"

----------------------------------------------------------------------------
(* Claims about the revenue figures                                         *)

RECURSIVE SumOver(_, _)
\* the sum of f[i] over the indices in S
SumOver(f, S) ==
  IF S = {} THEN 0
  ELSE LET i == CHOOSE j \in S : TRUE IN f[i] + SumOver(f, S \ {i})

CompletedQuotations == {i \in DOMAIN quotations : quotations[i].status = "completed"}

Amounts == [i \in DOMAIN quotations |-> quotations[i].totalAmount]

\* a dashboard and a quotation report, in either order, with no write from
\* the start of the first to now
RevenuePair ==
  /\ {resp.route, prev.route} = {"dashboard", "quotations"}
  /\ resp.status = 200 /\ prev.status = 200
  /\ prev.w0 = resp.w1 /\ resp.w1 = writes.all

DashboardOfPair == IF resp.route = "dashboard" THEN resp.body.data ELSE prev.body.data
QuotationOfPair == IF resp.route = "quotations" THEN resp.body.data ELSE prev.body.data

\* C8 as stated: whatever the quotations are, also with none completed, the
\* dashboard's overview.totalRevenue equals the quotation report's
\* revenueStats.totalRevenue when both are computed on the same state.
C8_RevenueEqualAlways ==
  RevenuePair =>
    /\ "totalRevenue" \in DOMAIN QuotationOfPair.revenueStats
    /\ QuotationOfPair.revenueStats.totalRevenue
         = DashboardOfPair.overview.totalRevenue

\* C8 as amended: with at least one completed quotation the two figures are
\* equal; with none the dashboard reports 0 and the quotation report's
\* revenueStats is the empty object, which has no totalRevenue.
C8_RevenueEqualWhenCompleted ==
  RevenuePair =>
    IF CompletedQuotations = {}
    THEN /\ DashboardOfPair.overview.totalRevenue = 0
         /\ QuotationOfPair.revenueStats = EmptyObject
    ELSE /\ "totalRevenue" \in DOMAIN QuotationOfPair.revenueStats
         /\ QuotationOfPair.revenueStats.totalRevenue
              = DashboardOfPair.overview.totalRevenue
         /\ DashboardOfPair.overview.totalRevenue
              = SumOver(Amounts, CompletedQuotations)

\* both reports over a completed and a pending quotation
C8_Witness ==
  /\ RevenuePair
  /\ CompletedQuotations # {}
  /\ CompletedQuotations # DOMAIN quotations
  /\ DashboardOfPair.overview.totalRevenue > 0

\* C9: revenueStats is computed over exactly the completed quotations:
\* the sum, the mean, the maximum and the minimum of their totalAmount;
\* quotations in another status contribute to none of them.
C9_RevenueStats ==
  (Served("quotations") /\ Undisturbed /\ CompletedQuotations # {}) =>
    LET rs == resp.body.data.revenueStats
        total == SumOver(Amounts, CompletedQuotations)
    IN  /\ rs.totalRevenue = total
        /\ rs.avgQuotationValue[1] * Cardinality(CompletedQuotations)
             = total * rs.avgQuotationValue[2]
        /\ \E i \in CompletedQuotations : rs.maxQuotationValue = Amounts[i]
        /\ \A i \in CompletedQuotations : Amounts[i] <= rs.maxQuotationValue
        /\ \E i \in CompletedQuotations : rs.minQuotationValue = Amounts[i]
        /\ \A i \in CompletedQuotations : rs.minQuotationValue <= Amounts[i]

\* a report over two completed quotations of different amounts
C9_Witness ==
  /\ Served("quotations") /\ Undisturbed
  /\ Cardinality(CompletedQuotations) = 2
  /\ resp.body.data.revenueStats.minQuotationValue
       < resp.body.data.revenueStats.maxQuotationValue

\* a report over a completed quotation and one in another status
C9_WitnessOtherStatus ==
  /\ Served("quotations") /\ Undisturbed
  /\ CompletedQuotations # {}
  /\ \E i \in DOMAIN quotations : quotations[i].status \in {"pending", "processing", "rejected"}

----------------------------------------------------------------------------
(* Claims about the recent counts                                           *)

PeriodRoutes == {"products", "suppliers", "users", "quotations", "reservations"}

\* the collection a report counts its recent documents in
CollectionOf(route) ==
  CASE route = "products" -> products
    [] route = "suppliers" -> suppliers
    [] route = "users" -> users
    [] route = "quotations" -> quotations
    [] route = "reservations" -> reservations

\* the position of the recent count among the awaited results of a report
RecentQuery(route) ==
  CASE route = "products" -> 7
    [] route = "suppliers" -> 7
    [] route = "users" -> 4
    [] route = "quotations" -> 6
    [] route = "reservations" -> 6

\* the recent count of a response
RecentOf(r) ==
  LET o == r.body.data.overview
  IN  CASE r.route = "products" -> o.recentProducts
        [] r.route = "suppliers" -> o.recentSuppliers
        [] r.route = "users" -> o.recentRegistrations
        [] r.route = "quotations" -> o.recentQuotations
        [] r.route = "reservations" -> o.recentReservations

\* the number of documents of a collection created in [from, to]
CreatedBetween(coll, from, to) ==
  Cardinality({i \in DOMAIN coll : from <= coll[i].createdAt /\ coll[i].createdAt <= to})

\* the number of documents of a collection created at or after from
CreatedSince(coll, from) ==
  Cardinality({i \in DOMAIN coll : from <= coll[i].createdAt})

\* the recent count of the request in service has just been computed
RecentJustCounted ==
  /\ req.route \in PeriodRoutes
  /\ Len(req.vals) = RecentQuery(req.route)
  /\ req.at = writes.all

\* C1 as stated: the recent count is the number of documents created in the
\* closed window [now - period days, now], now being the request time, and
\* with period = 0 it is 0.
C1_RecentInClosedWindow ==
  /\ RecentJustCounted =>
       /\ req.vals[RecentQuery(req.route)]
            = CreatedBetween(CollectionOf(req.route),
                             req.t0 - Days(req.period) * DayTicks, req.t0)
       /\ req.period = 0 => req.vals[RecentQuery(req.route)] = 0
  /\ \A rt \in PeriodRoutes :
       (Served(rt) /\ Undisturbed) =>
         /\ RecentOf(resp)
              = CreatedBetween(CollectionOf(rt),
                               resp.t0 - Days(resp.period) * DayTicks, resp.t0)
         /\ resp.period = 0 => RecentOf(resp) = 0

\* C1 as amended: the recent count is the number of documents, present when
\* the count runs, created at or after now - period days, with no upper end:
\* a document created after the request time is counted, and with
\* period = 0 the count is the number of documents created at or after the
\* request time.
C1_RecentSinceStart ==
  /\ RecentJustCounted =>
       req.vals[RecentQuery(req.route)]
         = CreatedSince(CollectionOf(req.route),
                        req.t0 - Days(req.period) * DayTicks)
  /\ \A rt \in PeriodRoutes :
       (Served(rt) /\ Undisturbed) =>
         RecentOf(resp)
           = CreatedSince(CollectionOf(rt),
                          resp.t0 - Days(resp.period) * DayTicks)

\* a recent count over a document older than the window and one inside it
C1_Witness ==
  /\ RecentJustCounted
  /\ req.period \in 1..MaxPeriod
  /\ \E i \in DOMAIN CollectionOf(req.route) :
       CollectionOf(req.route)[i].createdAt < req.t0 - Days(req.period) * DayTicks
  /\ \E i \in DOMAIN CollectionOf(req.route) :
       /\ CollectionOf(req.route)[i].createdAt >= req.t0 - Days(req.period) * DayTicks
       /\ CollectionOf(req.route)[i].createdAt < req.t0
  /\ req.vals[RecentQuery(req.route)] = 1

\* a recent count with period = 0 over a document created after the request
C1_WitnessAfterRequest ==
  /\ RecentJustCounted
  /\ req.period = 0
  /\ \E i \in DOMAIN CollectionOf(req.route) :
       CollectionOf(req.route)[i].createdAt > req.t0
  /\ req.vals[RecentQuery(req.route)] > 0

----------------------------------------------------------------------------
(* Claims about repeated requests                                           *)

\* the data of a response without the values derived from the wall clock:
\* the recent counts, the trends, the agreement counts and activeUsers
Timeless(r) ==
  LET data == r.body.data
  IN  CASE r.route = "products" ->
             [data EXCEPT !.overview.recentProducts = 0]
        [] r.route = "suppliers" ->
             [data EXCEPT !.overview.recentSuppliers = 0,
                          !.overview.expiredAgreements = 0,
                          !.overview.expiringSoon = 0]
        [] r.route = "users" ->
             [data EXCEPT !.overview.recentRegistrations = 0,
                          !.overview.activeUsers = 0,
                          !.registrationTrends = <<>>,
                          !.activityTrends = <<>>]
        [] r.route = "quotations" ->
             [data EXCEPT !.overview.recentQuotations = 0,
                          !.monthlyTrends = <<>>]
        [] r.route = "reservations" ->
             [data EXCEPT !.overview.recentReservations = 0,
                          !.monthlyTrends = <<>>]
        [] r.route = "dashboard" ->
             [data EXCEPT !.recentActivity = <<>>]

\* two responses to the same report with the same period, with no write
\* from the start of the first handler to the end of the second
SameReportTwice ==
  /\ resp.status = 200 /\ prev.status = 200
  /\ resp.route = prev.route /\ resp.period = prev.period
  /\ prev.w0 = resp.w1

----------------------------------------------------------------------------
(* Claims about the effects and the failures of the handlers                *)

\* C11: no step of a report handler, from its first statement to its
\* success or failure response, changes the contents of the Product,
\* Supplier, User, Quotation or Reservation collection.
C11_HandlersReadOnly ==
  [][(req' # req \/ log' # log) => UNCHANGED colls]_vars

\* a report answered with success and then one answered with failure, over
\* collections that are not empty
C11_Witness ==
  /\ prev.status = 200 /\ resp.status = 500
  /\ log # <<>>
  /\ Written # {}

\* a query of the handler in service rejects in this step
QueryFails == req.route # "none" /\ log' # log

\* the handler in service ends in this step
HandlerEnds == req.route # "none" /\ req'.route = "none"

\* C12: when a query of a handler fails, at whatever position, the handler
\* ends with one response, HTTP 500 with exactly success:false and the
\* error's message, without data; when it ends with no failure its one
\* response is success:true with data; it sends no response before it ends.
C12_OneResponse ==
  [][/\ QueryFails =>
          /\ HandlerEnds
          /\ prev' = resp
          /\ resp'.route = req.route
          /\ resp'.status = 500
          /\ resp'.body = [success |-> FALSE,
                           message |-> log'[Len(log')].message]
     /\ (HandlerEnds /\ ~QueryFails) =>
          /\ prev' = resp
          /\ resp'.route = req.route
          /\ resp'.status = 200
          /\ DOMAIN resp'.body = {"success", "data"}
          /\ resp'.body.success
     /\ (req.route # "none" /\ ~HandlerEnds) => UNCHANGED <<resp, prev>>
    ]_vars

\* a handler has answered with the failure payload after a query failed
C12_Witness ==
  /\ resp.status = 500
  /\ resp.route \in Routes
  /\ log # <<>>
  /\ resp.body.message = log[Len(log)].message
  /\ Written # {}

----------------------------------------------------------------------------
(* Specification of the empty results: reports over collections that are    *)
(* empty or hold no document that an aggregation matches, the caller's own  *)
(* document included, which may be deleted once the request is admitted     *)

InitEmpty == InitAt(StartOfRun, 0, 0)

NextEmpty ==
  \/ \E a \in BOOLEAN : Idle /\ createProduct(a, 0, 1, "paint", 1, Missing)
  \/ \E a \in BOOLEAN : Idle /\ createSupplier(a, "kandy", Missing)
  \/ \E st \in {"pending", "completed"} : Idle /\ createQuotation(st, "paint", 1)
  \/ \E st \in {"pending", "confirmed"} : Idle /\ createReservation(st, "a@ns")
  \/ inbox # <<>> /\ req.route = "none" /\ deleteUser(1)
  \/ \E rt \in Routes \ {"dashboard"} : Idle /\ protect(rt, Missing, 1)
  \/ protectUpdate
  \/ Begin
  \/ getProductReports
  \/ getSupplierReports
  \/ getUserReports
  \/ getQuotationReports
  \/ getReservationReports

SpecEmpty == InitEmpty /\ [][NextEmpty]_vars

\* no document of the collection has one of the statuses
NoneIn(coll, statuses) == \A i \in DOMAIN coll : coll[i].status \notin statuses

\* C13: a field fed by an aggregation or a find that matches no document is
\* the empty object or the empty array, never null or undefined, in a
\* response that is success:true: stockValue without active product,
\* revenueStats without completed quotation, responseTimeStats without
\* completed/rejected quotation (confirmed/completed/cancelled
\* reservation), activityStats without user, and the lists on empty
\* collections.
C13_EmptyResults ==
  LET data == resp.body.data
  IN  /\ (Served("products") /\ Undisturbed) =>
           /\ resp.body.success
           /\ (\A i \in DOMAIN products : ~products[i].isActive) =>
                 /\ data.stockValue = EmptyObject
                 /\ data.categoryDistribution = <<>>
                 /\ data.lowStockProducts = <<>>
                 /\ data.outOfStockProducts = <<>>
           /\ products = <<>> => data.topSuppliers = <<>>
      /\ (Served("suppliers") /\ Undisturbed) =>
           /\ resp.body.success
           /\ suppliers = <<>> => data.locationDistribution = <<>>
           /\ products = <<>> => data.supplierProductStats = <<>>
      /\ (Served("users") /\ Undisturbed) =>
           /\ resp.body.success
           /\ users = <<>> =>
                 /\ data.activityStats = EmptyObject
                 /\ data.topActiveUsers = <<>>
                 /\ data.loginDistribution = <<>>
      /\ (Served("quotations") /\ Undisturbed) =>
           /\ resp.body.success
           /\ NoneIn(quotations, {"completed"}) =>
                 data.revenueStats = EmptyObject
           /\ NoneIn(quotations, {"completed", "rejected"}) =>
                 data.responseTimeStats = EmptyObject
           /\ quotations = <<>> => data.categoryStats = <<>>
      /\ (Served("reservations") /\ Undisturbed) =>
           /\ resp.body.success
           /\ NoneIn(reservations, {"confirmed", "completed", "cancelled"}) =>
                 data.responseTimeStats = EmptyObject
           /\ reservations = <<>> =>
                 /\ data.topCustomers = <<>>
                 /\ data.statusDistribution = <<>>

\* a quotation report over quotations none of which is completed
C13_Witness ==
  /\ Served("quotations") /\ Undisturbed
  /\ quotations # <<>>
  /\ NoneIn(quotations, {"completed", "rejected"})
  /\ resp.body.data.revenueStats = EmptyObject
  /\ resp.body.data.responseTimeStats = EmptyObject

\* a user report over no user at all
C13_WitnessNoUser ==
  /\ Served("users") /\ Undisturbed
  /\ users = <<>>

----------------------------------------------------------------------------
(* Specification of the authentication: requests with every kind of token,  *)
(* from administrators and customers, active or deactivated, while users    *)
(* register and are deleted, also between the two awaits of protect; a      *)
(* behaviour has one request                                                *)

\* the second user at the start: none, or a customer, active or deactivated
InitAuth ==
  \E second \in {"none", "active", "deactivated"} :
    /\ now = StartOfRun /\ tz = 0
    /\ products = <<>> /\ suppliers = <<>> /\ quotations = <<>>
    /\ reservations = <<>>
    /\ users = IF second = "none" THEN <<Admin(0)>>
               ELSE <<Admin(0),
                      [Admin(0) EXCEPT !.id = 2, !.role = "customer",
                                       !.isActive = (second = "active")]>>
    /\ auth = NoAuth /\ inbox = <<>> /\ req = NoReq
    /\ resp = NoResp /\ prev = NoResp /\ log = <<>>
    /\ writes = [crud |-> 0, all |-> 0] /\ ticks = 0
    /\ updates = NoUpdates

\* no handler is running and no request has been answered yet
Waiting == req.route = "none" /\ resp = NoResp

NextAuth ==
  \/ Idle /\ register("customer")
  \/ \E id \in Ids : Waiting /\ deleteUser(id)
  \/ auth # NoAuth /\ Advance(1)
  \/ \E rt \in Routes, t \in Tokens :
       Idle /\ protect(rt, Missing, t)
  \/ protectUpdate
  \/ Begin
  \/ getProductReports
  \/ getSupplierReports
  \/ getUserReports
  \/ getQuotationReports
  \/ getReservationReports
  \/ getDashboardOverview /\ DashboardInOrder'

SpecAuth == InitAuth /\ [][NextAuth]_vars

\* the request the middleware or a handler holds comes with a verified token
Verified(r) == r.route = "none" \/ r.user \in Ids

\* C14: a request without a usable bearer token (no Authorization header, a
\* header that is not Bearer, a token that does not verify) is answered 401
\* and goes no further; a request reaches a handler only through the
\* middleware, with a verified token of a user that existed; and the
\* middleware lets every active user through on every report route,
\* administrator or customer alike.
C14_OnlyAuthenticated ==
  /\ [](/\ Verified(auth) /\ Verified(req)
        /\ \A i \in DOMAIN inbox : Verified(inbox[i])
        /\ (auth = NoAuth /\ Len(inbox) < MaxPending) =>
             \A i \in DOMAIN users : \A rt \in Routes :
               users[i].isActive =>
                 ENABLED (protect(rt, Missing, users[i].id)
                            /\ auth'.user = users[i].id))
  /\ [][/\ \A rt \in Routes, t \in {Missing, Forged} :
             protect(rt, Missing, t) =>
               /\ resp'.status = 401 /\ resp'.route = rt /\ prev' = resp
               /\ UNCHANGED <<auth, inbox, req>>
        /\ auth' \notin {auth, NoAuth} => auth'.user \in IdsOf(users)
        /\ Len(inbox') > Len(inbox) =>
             /\ auth # NoAuth
             /\ inbox' = Append(inbox, [route |-> auth.route,
                                        period |-> auth.period,
                                        user |-> auth.user])
        /\ req' # req /\ req.route = "none" =>
             /\ inbox # <<>>
             /\ req'.user = Head(inbox).user /\ req'.route = Head(inbox).route
       ]_vars

\* a customer's request in the hands of a report handler
C14_Witness ==
  /\ req.route # "none"
  /\ Len(req.vals) > 0
  /\ \E i \in DOMAIN users :
       users[i].id = req.user /\ users[i].role = "customer"

\* a request without a usable token answered 401
C14_WitnessRejected ==
  /\ resp.status = 401
  /\ resp.body.message = "Not authorized to access this route"
  /\ Quiet

----------------------------------------------------------------------------
(* Specification of the supplier agreements: suppliers without an agreement *)
(* end date and with end dates around the request time and around 30 days   *)
(* after it, one supplier report over them                                  *)

\* the agreement end dates, as offsets from the start of the behaviour
AgreementOffsets ==
  {0 - 1, 0, 1, 2,
   30 * DayTicks - 1, 30 * DayTicks, 30 * DayTicks + 1, 30 * DayTicks + 2,
   31 * DayTicks}

InitSupplier == InitAt(StartOfRun, 0, 0)

NextSupplier ==
  \/ \E a \in BOOLEAN : Idle /\ createSupplier(a, "kandy", Missing)
  \/ \E d \in AgreementOffsets :
       Idle /\ createSupplier(TRUE, "kandy", StartOfRun + d)
  \/ Idle /\ Advance(1)
  \/ \E p \in {0, Missing} : Idle /\ protect("suppliers", p, 1)
  \/ protectUpdate
  \/ Begin
  \/ getSupplierReports

SpecSupplier == InitSupplier /\ [][NextSupplier]_vars

\* the suppliers whose agreement ends in [from, to]
EndingIn(from, to) ==
  {i \in DOMAIN suppliers :
     /\ suppliers[i].agreementEndDate # Missing
     /\ from <= suppliers[i].agreementEndDate
     /\ suppliers[i].agreementEndDate <= to}

\* the suppliers whose agreement ended before t
EndedBefore(t) ==
  {i \in DOMAIN suppliers :
     /\ suppliers[i].agreementEndDate # Missing
     /\ suppliers[i].agreementEndDate < t}

\* C15: expiredAgreements is the number of suppliers with
\* agreementEndDate < now, expiringSoon the number of those with
\* now <= agreementEndDate <= now + 30 days; no supplier is in both, and one
\* without agreementEndDate or with one after now + 30 days is in neither.
C15_Agreements ==
  (Served("suppliers") /\ Undisturbed) =>
    LET o == resp.body.data.overview
        t == resp.t0
        neither == {i \in DOMAIN suppliers :
                      \/ suppliers[i].agreementEndDate = Missing
                      \/ suppliers[i].agreementEndDate > t + 30 * DayTicks}
    IN  /\ o.expiredAgreements = Cardinality(EndedBefore(t))
        /\ o.expiringSoon = Cardinality(EndingIn(t, t + 30 * DayTicks))
        /\ o.expiredAgreements + o.expiringSoon + Cardinality(neither)
             = Len(suppliers)

\* a supplier report with an agreement ending exactly 30 days after the
\* request, counted, and one ending a tick later, not counted
C15_Witness ==
  /\ Served("suppliers") /\ Undisturbed
  /\ \E i, j \in DOMAIN suppliers :
       /\ suppliers[i].agreementEndDate = resp.t0 + 30 * DayTicks
       /\ suppliers[j].agreementEndDate = resp.t0 + 30 * DayTicks + 1
  /\ resp.body.data.overview.expiringSoon = 1
  /\ resp.body.data.overview.expiredAgreements = 0

----------------------------------------------------------------------------
(* Specification of the period: the user or the supplier report requested   *)
(* twice with any two periods, both requests admitted before the first is   *)
(* served and both served at the same time on the same collections          *)

InitPeriod == InitAt(StartOfRun, 0, 0)

NextPeriod ==
  \/ Idle /\ register("customer")
  \/ \E d \in {0 - 1, 1, 30 * DayTicks + 1} :
       Idle /\ createSupplier(TRUE, "kandy", StartOfRun + d)
  \/ Len(inbox) = 2 /\ Advance(1)
  \/ \E rt \in {"users", "suppliers"}, p \in Periods :
       /\ Requests < 2 /\ req.route = "none" /\ resp = NoResp
       /\ Requested \subseteq {rt}
       /\ Written \subseteq {rt}
       /\ protect(rt, p, 1)
  \/ protectUpdate
  \/ Begin
  \/ getUserReports
  \/ getSupplierReports

SpecPeriod == InitPeriod /\ [][NextPeriod]_vars

\* two responses of the same report, computed at the same time with no
\* write from the start of the first handler to the end of the second
SameStateTwice(route) ==
  /\ Served(route) /\ prev.route = route /\ prev.status = 200
  /\ prev.w0 = resp.w1
  /\ prev.t0 = resp.t0

\* C16: whatever the two periods, on the same collection state and at the
\* same request time the user report gives the same activeUsers and the
\* supplier report the same expiringSoon and expiredAgreements.
C16_PeriodIgnored ==
  /\ SameStateTwice("users") =>
       resp.body.data.overview.activeUsers = prev.body.data.overview.activeUsers
  /\ SameStateTwice("suppliers") =>
       /\ resp.body.data.overview.expiringSoon
            = prev.body.data.overview.expiringSoon
       /\ resp.body.data.overview.expiredAgreements
            = prev.body.data.overview.expiredAgreements

\* two user reports with different periods and different recent counts
C16_Witness ==
  /\ SameStateTwice("users")
  /\ resp.period # prev.period
  /\ resp.body.data.overview.recentRegistrations
       # prev.body.data.overview.recentRegistrations
  /\ resp.body.data.overview.activeUsers > 0

\* two supplier reports with different periods over agreements of each kind
C16_WitnessSuppliers ==
  /\ SameStateTwice("suppliers")
  /\ resp.period # prev.period
  /\ resp.body.data.overview.expiringSoon > 0
  /\ resp.body.data.overview.expiredAgreements > 0

----------------------------------------------------------------------------
(* Claims about the dashboard                                               *)

\* the number of documents of a collection that satisfy P
Count(coll, P(_)) == Cardinality({i \in DOMAIN coll : P(coll[i])})

\* C17: in whatever order the ten count queries of the dashboard complete,
\* each result is bound to its own field, so the response is the same; and
\* when one of them fails the request ends with the 500 failure payload and
\* no success payload.
C17_DashboardJoin ==
  /\ []((Served("dashboard") /\ Undisturbed) =>
          LET data == resp.body.data
              active(d) == d.isActive
              any(d) == TRUE
              low(d) == d.isActive /\ d.stock <= d.minStock
              pending(d) == d.status = "pending"
              recent(d) == d.createdAt >= resp.t0 - 30 * DayTicks
          IN  /\ data.overview.totalProducts = Count(products, active)
              /\ data.overview.totalSuppliers = Count(suppliers, active)
              /\ data.overview.totalUsers = Count(users, any)
              /\ data.overview.totalQuotations = Count(quotations, any)
              /\ data.overview.totalReservations = Count(reservations, any)
              /\ data.alerts.lowStockProducts = Count(products, low)
              /\ data.alerts.pendingQuotations = Count(quotations, pending)
              /\ data.alerts.pendingReservations = Count(reservations, pending)
              /\ data.recentActivity.recentQuotations = Count(quotations, recent)
              /\ data.recentActivity.recentReservations
                   = Count(reservations, recent))
  /\ [][(req.route = "dashboard" /\ log' # log) =>
          /\ req'.route = "none"
          /\ prev' = resp
          /\ resp'.status = 500
          /\ resp'.body = [success |-> FALSE,
                           message |-> log'[Len(log')].message]
       ]_vars

\* a dashboard over one active product and one quotation that is not pending
C17_Witness ==
  /\ Served("dashboard") /\ Undisturbed
  /\ resp.body.data.overview.totalProducts = 1
  /\ resp.body.data.overview.totalSuppliers = 0
  /\ resp.body.data.overview.totalQuotations = 1
  /\ resp.body.data.alerts.pendingQuotations = 0

\* the last query of the dashboard has completed before the first
C17_WitnessOutOfOrder ==
  /\ req.route = "dashboard"
  /\ req.vals[1] = Missing
  /\ req.vals[DashboardCounts] # Missing
  /\ Written # {}

\* the dashboard has failed after some of its queries had completed
C17_WitnessFailure ==
  /\ resp.route = "dashboard" /\ resp.status = 500

----------------------------------------------------------------------------
(* Claims about reads that interleave with writes: the product report with  *)
(* the products created, restocked, retired and deleted before the request  *)
(* and between two of its queries                                           *)

InitSkew == InitAt(StartOfRun, 0, 0)

NextSkew ==
  \/ \E a \in BOOLEAN, st \in 0..1 :
       MayWrite("products") /\ createProduct(a, st, 1, "paint", 1, Missing)
  \/ \E id \in Ids, op \in {"add", "subtract"} :
       MayWrite("products") /\ updateStock(id, op, 1)
  \/ \E id \in Ids, a \in BOOLEAN : MayWrite("products") /\ updateProduct(id, a)
  \/ \E id \in Ids : MayWrite("products") /\ deleteProduct(id)
  \/ Idle /\ protect("products", Missing, 1)
  \/ protectUpdate
  \/ Begin
  \/ getProductReports

SpecSkew == InitSkew /\ [][NextSkew]_vars

\* what every product report computed from one state of the collection
\* satisfies
OfOneState(data) ==
  LET o == data.overview
      dist == data.categoryDistribution
  IN  /\ o.outOfStockProducts <= o.lowStockProducts
      /\ o.lowStockProducts <= o.activeProducts
      /\ o.activeProducts <= o.totalProducts
      /\ o.recentProducts <= o.totalProducts
      /\ SumSeq([i \in DOMAIN dist |-> dist[i].count]) = o.activeProducts
      /\ Len(data.outOfStockProducts) = o.outOfStockProducts
      /\ Len(data.lowStockProducts) = o.lowStockProducts - o.outOfStockProducts

\* C18: a product report can contradict every single state of the
\* collection (the witnesses below are such responses), and it does so
\* only when a write has landed between two of its queries
C18_SkewUnderWrites ==
  (Served("products") /\ ~OfOneState(resp.body.data)) => resp.w0 # resp.w1

\* more low-stock products than active products
C18_Witness ==
  /\ Served("products")
  /\ resp.body.data.overview.lowStockProducts
       > resp.body.data.overview.activeProducts

\* the category counts do not add up to the active products
C18_WitnessCategories ==
  /\ Served("products")
  /\ LET dist == resp.body.data.categoryDistribution
     IN  SumSeq([i \in DOMAIN dist |-> dist[i].count])
           # resp.body.data.overview.activeProducts

\* a product deleted after it was counted: in the total, in no other figure
C18_WitnessDeleted ==
  /\ Served("products")
  /\ products = <<>>
  /\ resp.body.data.overview.totalProducts = 1
  /\ resp.body.data.overview.lowStockProducts = 0
  /\ resp.body.data.categoryDistribution = <<>>

----------------------------------------------------------------------------
(* Claims about the writes of the middleware                                *)

\* the middleware has called next(): the request joins the router's queue
PassedOn == Len(inbox') > Len(inbox)

\* the middleware has answered the request itself
Rejected == (resp' # resp \/ prev' # prev) /\ resp'.status \in {401, 403}

\* the caller's document with the login counted, every other document as
\* it was
LoginCounted ==
  \E i \in DOMAIN users :
    /\ users[i].id = auth.user
    /\ users' = [users EXCEPT ![i].loginCount = @ + 1,
                              ![i].lastLogin = auth.date]

\* C19: every request the middleware passes on has incremented the
\* caller's loginCount by exactly 1 and set the caller's lastLogin to the
\* time the middleware read; every request it rejects with 401 or 403
\* leaves every user's document unchanged; no request is both answered by
\* the middleware and passed on.
C19_WritesOnAccept ==
  [][/\ PassedOn => LoginCounted /\ UNCHANGED <<resp, prev>>
     /\ Rejected => UNCHANGED <<users, inbox>>
    ]_vars

\* the same with the passed request's login counted only if the caller's
\* document is still in the collection when findByIdAndUpdate arrives
C19_WritesOnAcceptIfPresent ==
  [][/\ PassedOn =>
          /\ auth.user \in IdsOf(users) => LoginCounted
          /\ auth.user \notin IdsOf(users) => UNCHANGED users
          /\ UNCHANGED <<resp, prev>>
     /\ Rejected => UNCHANGED <<users, inbox>>
    ]_vars

\* a request handed to a handler although its user was deleted between
\* the two awaits of the middleware, with no login counted anywhere
PassedUncounted ==
  /\ inbox # <<>>
  /\ inbox[1].user \notin IdsOf(users)
  /\ \A i \in DOMAIN users : users[i].loginCount = 0

----------------------------------------------------------------------------
(* Claims about the caller in the user report: one request for the user     *)
(* report, with users registered before it, users deleted at any moment     *)
(* until it is answered, and the clock moving between the middleware and    *)
(* the handler.  An _id is never issued twice, so nobody registers while    *)
(* the request is in flight.                                                *)

InitCaller == InitAt(StartOfRun, 0, 0)

NextCaller ==
  \/ Idle /\ register("customer")
  \/ \E id \in Ids : resp = NoResp /\ deleteUser(id)
  \/ req.route = "none" /\ ~Quiet /\ Advance(1)
  \/ \E t \in Tokens : Idle /\ protect("users", Missing, t)
  \/ protectUpdate
  \/ Begin
  \/ getUserReports

SpecCaller == InitCaller /\ [][NextCaller]_vars

\* the caller as the report lists them: the entry of loginDistribution
\* pushed for the caller's document
ListedLogins(data, caller) ==
  {data.loginDistribution[i].users[j].loginCount :
     <<i, j>> \in {p \in (DOMAIN data.loginDistribution) \X (1..MaxDocs + 1) :
                    /\ p[2] \in DOMAIN data.loginDistribution[p[1]].users
                    /\ data.loginDistribution[p[1]].users[p[2]].name = caller}}

\* C20: a successful user report whose caller's document is still in the
\* collection when it is answered counts the caller among the active users
\* and lists the caller with a loginCount of at least 1: the update of the
\* middleware precedes the first query of the handler.
C20_CallerReflected ==
  [][(/\ req.route = "users"
      /\ resp' # resp /\ resp'.status = 200
      /\ req.user \in IdsOf(users)) =>
        /\ resp'.body.data.overview.activeUsers >= 1
        /\ ListedLogins(resp'.body.data, req.user) # {}
        /\ \A n \in ListedLogins(resp'.body.data, req.user) : n >= 1
    ]_vars

\* a user report answered to a customer who is still registered, another
\* user having been deleted while the handler ran
C20_Witness ==
  /\ Served("users")
  /\ resp.w0 # resp.w1
  /\ resp.body.data.overview.activeUsers = 1
  /\ ListedLogins(resp.body.data, 2) = {1}
  /\ IdsOf(users) = {2}

\* a user report answered to a caller deleted before the handler's queries
C20_WitnessDeleted ==
  /\ Served("users")
  /\ resp.body.data.overview.activeUsers = 0
  /\ resp.body.data.overview.totalUsers = 0

----------------------------------------------------------------------------
(* Claims about updateStock: up to MaxUpdates requests on one product,      *)
(* their handlers interleaved await by await.  The product starts with      *)
(* stock = minStock, and no request changes minStock: it keeps the stock    *)
(* the product started with.                                                *)

InitStock ==
  \E st \in 0..MaxStock :
    /\ now = StartOfRun /\ tz = 0
    /\ products = <<[id |-> 1, isActive |-> TRUE, stock |-> st,
                     minStock |-> st, category |-> "paint", price |-> 1,
                     supplier |-> Missing, createdAt |-> StartOfRun,
                     updatedAt |-> StartOfRun]>>
    /\ suppliers = <<>> /\ quotations = <<>> /\ reservations = <<>>
    /\ users = <<Admin(0)>>
    /\ auth = NoAuth /\ inbox = <<>> /\ req = NoReq
    /\ resp = NoResp /\ prev = NoResp /\ log = <<>>
    /\ writes = [crud |-> 0, all |-> 0] /\ ticks = 0
    /\ updates = NoUpdates

NextStock ==
  \/ \E s \in 1..MaxUpdates, id \in 1..2, op \in Operations, q \in Quantities :
       updateStockRequest(s, id, op, q)
  \/ \E s \in 1..MaxUpdates : updateStockFound(s)
  \/ \E s \in 1..MaxUpdates : updateStockSaved(s)
  \/ \E s \in 1..MaxUpdates : updateStockAnswer(s)

SpecStock == InitStock /\ [][NextStock]_vars

\* request s is answered in this step
AnsweredNow(s) == updates[s].pc # "done" /\ updates'[s].pc = "done"

\* C21: the stock of every product stays >= 0 under interleaved
\* updateStock requests; a request without a quantity or with a quantity
\* <= 0 is answered 400, and so is, on a product that exists, a subtract of
\* more than the stock read and an operation other than add and subtract;
\* a request answered 400 leaves the products as they were.
C21_StockNotNegative ==
  /\ [](\A i \in DOMAIN products : products[i].stock >= 0)
  /\ [][\A s \in 1..MaxUpdates :
         /\ (AnsweredNow(s) /\ updates'[s].status = 400) => UNCHANGED products
         /\ \A id \in 1..2, op \in Operations, q \in Quantities :
              (/\ updateStockRequest(s, id, op, q)
               /\ (q = Undefined \/ (q.type = "number" /\ q.value <= 0)))
                => updates'[s].pc = "done" /\ updates'[s].status = 400
         /\ (/\ updates[s].pc = "find"
             /\ updates'[s] # updates[s]
             /\ updates'[s].message # "Server error while updating stock"
             /\ findById(products, updates[s].id) # <<>>
             /\ \/ updates[s].operation \notin {"add", "subtract"}
                \/ /\ updates[s].operation = "subtract"
                   /\ updates[s].quantity.type = "number"
                   /\ updates[s].quantity.value
                        > findById(products, updates[s].id)[1].stock)
              => updates'[s].pc = "done" /\ updates'[s].status = 400
      ]_vars

\* two subtractions of the last unit both answered 200: the stock is 0
C21_Witness ==
  /\ \A s \in 1..2 : /\ updates[s].status = 200
                      /\ updates[s].operation = "subtract"
                      /\ updates[s].quantity = Num(1)
  /\ products[1].minStock = 1
  /\ products[1].stock = 0

\* a subtraction of more than the stock answered 400
C21_WitnessInsufficient ==
  /\ \E s \in 1..MaxUpdates : updates[s].message = "Insufficient stock"
  /\ products[1].stock = products[1].minStock

\* what the requests answered 200 add to the stock
RECURSIVE Applied(_)
Applied(n) ==
  IF n = 0 THEN 0
  ELSE Applied(n - 1)
         + (IF updates[n].status # 200 THEN 0
            ELSE IF updates[n].operation = "add" THEN updates[n].quantity.value
            ELSE 0 - updates[n].quantity.value)

\* C22: when every request has been answered and answered 200, the stock
\* is the stock the product started with, plus the quantities added,
\* minus the quantities subtracted.
C22_NoLostUpdate ==
  (\A s \in 1..MaxUpdates : updates[s].pc = "done" /\ updates[s].status = 200)
    => products[1].stock = products[1].minStock + Applied(MaxUpdates)

\* the requests one after the other: a request arrives when every earlier
\* one has been answered
NextStockInSequence ==
  \/ \E s \in 1..MaxUpdates, id \in 1..2, op \in Operations, q \in Quantities :
       /\ \A t \in 1..MaxUpdates : updates[t].pc \in {"none", "done"}
       /\ updateStockRequest(s, id, op, q)
  \/ \E s \in 1..MaxUpdates : updateStockFound(s)
  \/ \E s \in 1..MaxUpdates : updateStockSaved(s)
  \/ \E s \in 1..MaxUpdates : updateStockAnswer(s)

SpecStockInSequence == InitStock /\ [][NextStockInSequence]_vars

\* the statement of C22 as it holds under SpecStockInSequence
NoLostUpdateInSequence ==
  (\A s \in 1..MaxUpdates : updates[s].pc = "done" /\ updates[s].status = 200)
    => products[1].stock - products[1].minStock = Applied(MaxUpdates)

====
